---- MODULE Spec2Model ----
(***************************************************************************)
(* expense-ledger: the router, the pagination parser, the account and      *)
(* transaction handlers and the repositories over the relational store.    *)
(*                                                                         *)
(* Strings are TLA+ strings; the Go string functions are modelled at the   *)
(* level of characters with Len, SubSeq and \o.                            *)
(***************************************************************************)
EXTENDS Integers, Sequences, FiniteSets, TLC

VARIABLES
    rRoutes,    \* router: the route table given to newRouter
    rMethod,    \* router: r.Method of the request
    rSegs,      \* the segments the request path was built from
    rPath,      \* r.URL.Path
    rOut,       \* router: what newRouter's handler did with the request
    rParsed,    \* accountIDAndTransactionIDFromPath(rPath), once computed
    pgQuery,    \* pagination: request.URL.Query(), key -> values
    pgOut,      \* pagination: the result of ParsePagination, once computed
    accounts,   \* table accounts: id -> [name, type]
    transactions, \* table transactions: id -> [account_id, amount, date, description, type]
    req,        \* the request being served
    resp,       \* the response to it
    calls,      \* the calls it made to the repositories, in order, with their errors
    before,     \* the two tables as the request found them
    entry,      \* what the request was handed to: the router, or a handler by name
    inflight,   \* the requests for one transaction served side by side, each with
                \* what it has fetched, its response and the steps of the two
    repo        \* the repository method called by itself, with its arguments and result

routerVars == <<rRoutes, rMethod, rSegs, rPath, rOut, rParsed>>
pageVars == <<pgQuery, pgOut>>
apiVars == <<accounts, transactions, req, resp, calls, before, entry>>
directVars == <<inflight, repo>>

vars == <<rRoutes, rMethod, rSegs, rPath, rOut, rParsed, pgQuery, pgOut,
          accounts, transactions, req, resp, calls, before, entry, inflight, repo>>

-----------------------------------------------------------------------------
(* Bounds of the model *)

\* longest request path, in segments, of the path specifications
MaxSegs == 5
\* longest request path, in segments, tried against generated route tables
MaxTableSegs == 2
\* longest generated route table
MaxRoutes == 3
\* longest generated value of a pagination parameter, in characters
MaxParamLen == 3

-----------------------------------------------------------------------------
\* a value computed once and named within what follows (v := ...)
With(v, F(_)) == F(v)

-----------------------------------------------------------------------------
(* package strings *)

\* strings.HasPrefix
HasPrefix(s, prefix) ==
    Len(s) >= Len(prefix) /\ SubSeq(s, 1, Len(prefix)) = prefix

\* strings.TrimPrefix
TrimPrefix(s, prefix) ==
    IF HasPrefix(s, prefix) THEN SubSeq(s, Len(prefix) + 1, Len(s)) ELSE s

\* strings.Index for a one-character separator: the first position of sep in
\* s (1-based), 0 when s does not hold it
RECURSIVE IndexFrom(_, _, _)
IndexFrom(s, sep, i) ==
    IF i > Len(s) THEN 0
    ELSE IF SubSeq(s, i, i) = sep THEN i
    ELSE IndexFrom(s, sep, i + 1)

Index(s, sep) == IndexFrom(s, sep, 1)

\* strings.Contains for a one-character substring
Contains(s, sub) == Index(s, sub) # 0

\* strings.SplitN(s, sep, n) for n > 0 and a one-character sep: at most n
\* substrings, the last one the unsplit remainder
RECURSIVE SplitN(_, _, _)
SplitN(s, sep, n) ==
    LET i == Index(s, sep)
    IN  IF n <= 1 \/ i = 0
        THEN <<s>>
        ELSE <<SubSeq(s, 1, i - 1)>> \o SplitN(SubSeq(s, i + 1, Len(s)), sep, n - 1)

-----------------------------------------------------------------------------
(* Request paths: "/" followed by each segment in turn *)

RECURSIVE JoinPath(_)
JoinPath(segs) ==
    IF segs = <<>> THEN "" ELSE "/" \o Head(segs) \o JoinPath(Tail(segs))

SeqsUpTo(S, n) == UNION {[1..k -> S] : k \in 0..n}

\* segment values: empty (a doubled or trailing slash), the two literals,
\* and opaque identifiers
PathSegments == {"", "accounts", "transactions", "x", "t1"}

-----------------------------------------------------------------------------
(* netlify/functions/api/main.go: the router *)

MethodGet == "GET"
MethodPost == "POST"
MethodPut == "PUT"
MethodDelete == "DELETE"
MethodPatch == "PATCH"

Methods == {MethodGet, MethodPost, MethodPut, MethodDelete, MethodPatch}

accountsIDPrefix == "/accounts/"

\* pathMatches splitting the rest into at most 3 parts instead of 4: what
\* follows the txId stays inside the third part
pathMatchesSplit3(routePath, requestPath) ==
    IF routePath = requestPath THEN TRUE
    ELSE IF ~HasPrefix(requestPath, accountsIDPrefix) THEN FALSE
    ELSE
        LET rest == SubSeq(requestPath, Len(accountsIDPrefix) + 1, Len(requestPath))
            parts == SplitN(rest, "/", 3)
        IN  CASE routePath = "/accounts/:id" ->
                    Len(parts) = 1 /\ parts[1] # ""
              [] routePath = "/accounts/:id/transactions" ->
                    Len(parts) = 2 /\ parts[1] # "" /\ parts[2] = "transactions"
              [] routePath = "/accounts/:id/transactions/:txId" ->
                    /\ Len(parts) = 3 /\ parts[1] # ""
                    /\ parts[2] = "transactions" /\ parts[3] # ""
              [] OTHER -> FALSE

\* a matcher that takes a path below /accounts/:id/transactions, however
\* long, as a match of that pattern
pathMatchesBelow(routePath, requestPath) ==
    IF routePath = requestPath THEN TRUE
    ELSE IF ~HasPrefix(requestPath, accountsIDPrefix) THEN FALSE
    ELSE
        LET rest == SubSeq(requestPath, Len(accountsIDPrefix) + 1, Len(requestPath))
            parts == SplitN(rest, "/", 4)
        IN  CASE routePath = "/accounts/:id" ->
                    Len(parts) = 1 /\ parts[1] # ""
              [] routePath = "/accounts/:id/transactions" ->
                    Len(parts) >= 2 /\ parts[1] # "" /\ parts[2] = "transactions"
              [] routePath = "/accounts/:id/transactions/:txId" ->
                    /\ Len(parts) = 3 /\ parts[1] # ""
                    /\ parts[2] = "transactions" /\ parts[3] # ""
              [] OTHER -> FALSE

pathMatches(routePath, requestPath) ==
    IF routePath = requestPath THEN TRUE
    ELSE IF ~HasPrefix(requestPath, accountsIDPrefix) THEN FALSE
    ELSE
        LET rest == SubSeq(requestPath, Len(accountsIDPrefix) + 1, Len(requestPath))
            parts == SplitN(rest, "/", 4)
        IN  CASE routePath = "/accounts/:id" ->
                    Len(parts) = 1 /\ parts[1] # ""
              [] routePath = "/accounts/:id/transactions" ->
                    Len(parts) = 2 /\ parts[1] # "" /\ parts[2] = "transactions"
              [] routePath = "/accounts/:id/transactions/:txId" ->
                    /\ Len(parts) = 3 /\ parts[1] # ""
                    /\ parts[2] = "transactions" /\ parts[3] # ""
              [] OTHER -> FALSE

\* routerLoop setting pathMatched only after the method test, where the
\* loop has already returned: a path that matches is never remembered
RECURSIVE routerLoopNoFlag(_, _, _, _, _)
routerLoopNoFlag(routes, i, method, path, pathMatched) ==
    IF i > Len(routes)
    THEN IF pathMatched
         THEN [status |-> 405, calls |-> <<>>]
         ELSE [status |-> 404, calls |-> <<>>]
    ELSE IF ~pathMatches(routes[i].path, path)
         THEN routerLoopNoFlag(routes, i + 1, method, path, pathMatched)
         ELSE IF routes[i].method = method
              THEN [status |-> 0, calls |-> <<i>>]
              ELSE routerLoopNoFlag(routes, i + 1, method, path, pathMatched)

\* The loop of newRouter's handler from route i on. The result is the
\* response written (0 while none is: a handler was invoked) and the routes
\* whose handler was invoked, in order.
RECURSIVE routerLoop(_, _, _, _, _)
routerLoop(routes, i, method, path, pathMatched) ==
    IF i > Len(routes)
    THEN IF pathMatched
         THEN [status |-> 405, calls |-> <<>>]
         ELSE [status |-> 404, calls |-> <<>>]
    ELSE IF ~pathMatches(routes[i].path, path)
         THEN routerLoop(routes, i + 1, method, path, pathMatched)
         ELSE IF routes[i].method = method
              THEN [status |-> 0, calls |-> <<i>>]
              ELSE routerLoop(routes, i + 1, method, path, TRUE)

newRouter(routes, method, path) == routerLoop(routes, 1, method, path, FALSE)

\* a route table that registers CreateTransaction for POST on the path of
\* a single transaction as well
RegisteredRoutesWithCreateOnTransaction == <<
    [method |-> MethodGet,    path |-> "/",                                handler |-> "OK"],
    [method |-> MethodGet,    path |-> "/accounts",                        handler |-> "ListAccounts"],
    [method |-> MethodPost,   path |-> "/accounts",                        handler |-> "CreateAccount"],
    [method |-> MethodPut,    path |-> "/accounts/:id",                    handler |-> "UpdateAccount"],
    [method |-> MethodDelete, path |-> "/accounts/:id",                    handler |-> "DeleteAccount"],
    [method |-> MethodGet,    path |-> "/accounts/:id/transactions/:txId", handler |-> "ListTransactions"],
    [method |-> MethodPut,    path |-> "/accounts/:id/transactions/:txId", handler |-> "UpdateTransaction"],
    [method |-> MethodDelete, path |-> "/accounts/:id/transactions/:txId", handler |-> "DeleteTransaction"],
    [method |-> MethodPost,   path |-> "/accounts/:id/transactions/:txId", handler |-> "CreateTransaction"],
    [method |-> MethodGet,    path |-> "/accounts/:id/transactions",       handler |-> "ListTransactions"],
    [method |-> MethodPost,   path |-> "/accounts/:id/transactions",       handler |-> "CreateTransaction"] >>

\* the route table of getRouter / main
RegisteredRoutes == <<
    [method |-> MethodGet,    path |-> "/",                                handler |-> "OK"],
    [method |-> MethodGet,    path |-> "/accounts",                        handler |-> "ListAccounts"],
    [method |-> MethodPost,   path |-> "/accounts",                        handler |-> "CreateAccount"],
    [method |-> MethodPut,    path |-> "/accounts/:id",                    handler |-> "UpdateAccount"],
    [method |-> MethodDelete, path |-> "/accounts/:id",                    handler |-> "DeleteAccount"],
    [method |-> MethodGet,    path |-> "/accounts/:id/transactions/:txId", handler |-> "ListTransactions"],
    [method |-> MethodPut,    path |-> "/accounts/:id/transactions/:txId", handler |-> "UpdateTransaction"],
    [method |-> MethodDelete, path |-> "/accounts/:id/transactions/:txId", handler |-> "DeleteTransaction"],
    [method |-> MethodGet,    path |-> "/accounts/:id/transactions",       handler |-> "ListTransactions"],
    [method |-> MethodPost,   path |-> "/accounts/:id/transactions",       handler |-> "CreateTransaction"] >>

-----------------------------------------------------------------------------
(* transaction handler: path parsing *)

transactionsPathPrefix == "/accounts/"

\* accountIDAndTransactionIDFromPath without the test that the third part
\* holds no slash
accountIDAndTransactionIDFromPathNoSlashTest(path) ==
    IF ~HasPrefix(path, transactionsPathPrefix)
    THEN [accountID |-> "", transactionID |-> ""]
    ELSE
        LET rest == TrimPrefix(path, transactionsPathPrefix)
            parts == SplitN(rest, "/", 3)
        IN  IF Len(parts) < 2 \/ parts[1] = "" \/ parts[2] # "transactions"
            THEN [accountID |-> "", transactionID |-> ""]
            ELSE [accountID |-> parts[1],
                  transactionID |->
                      IF Len(parts) = 3 /\ parts[3] # "" THEN parts[3] ELSE ""]

accountIDAndTransactionIDFromPath(path) ==
    IF ~HasPrefix(path, transactionsPathPrefix)
    THEN [accountID |-> "", transactionID |-> ""]
    ELSE
        LET rest == TrimPrefix(path, transactionsPathPrefix)
            parts == SplitN(rest, "/", 3)
        IN  IF Len(parts) < 2 \/ parts[1] = "" \/ parts[2] # "transactions"
            THEN [accountID |-> "", transactionID |-> ""]
            ELSE [accountID |-> parts[1],
                  transactionID |->
                      IF Len(parts) = 3 /\ parts[3] # "" /\ ~Contains(parts[3], "/")
                      THEN parts[3] ELSE ""]

-----------------------------------------------------------------------------
(* package strconv: Atoi on a 64-bit platform. An int does not fit a TLC  *)
(* integer, so a parsed value is kept as its sign and its decimal digits  *)
(* without leading zeros.                                                 *)

DigitVal ==
    [c \in {"0", "1", "2", "3", "4", "5", "6", "7", "8", "9"} |->
        CASE c = "0" -> 0 [] c = "1" -> 1 [] c = "2" -> 2 [] c = "3" -> 3
          [] c = "4" -> 4 [] c = "5" -> 5 [] c = "6" -> 6 [] c = "7" -> 7
          [] c = "8" -> 8 [] c = "9" -> 9]

IsDigits(s) == \A i \in 1..Len(s) : SubSeq(s, i, i) \in DOMAIN DigitVal

RECURSIVE TrimZeros(_)
TrimZeros(s) ==
    IF Len(s) > 1 /\ SubSeq(s, 1, 1) = "0"
    THEN TrimZeros(SubSeq(s, 2, Len(s)))
    ELSE s

\* a < b for decimal digit strings without leading zeros
RECURSIVE DecLess(_, _)
DecLess(a, b) ==
    IF Len(a) # Len(b) THEN Len(a) < Len(b)
    ELSE IF a = "" THEN FALSE
    ELSE LET x == DigitVal[SubSeq(a, 1, 1)]
             y == DigitVal[SubSeq(b, 1, 1)]
         IN  IF x # y THEN x < y
             ELSE DecLess(SubSeq(a, 2, Len(a)), SubSeq(b, 2, Len(b)))

\* the value of a short decimal digit string
RECURSIVE DecToInt(_)
DecToInt(s) ==
    IF s = "" THEN 0
    ELSE DecToInt(SubSeq(s, 1, Len(s) - 1)) * 10 + DigitVal[SubSeq(s, Len(s), Len(s))]

MaxInt64 == "9223372036854775807"
MinInt64Abs == "9223372036854775808"

\* strconv.Atoi: an optional sign and one or more decimal digits, a syntax
\* error otherwise; a range error when the value does not fit an int
Atoi(s) ==
    LET signed == Len(s) > 0 /\ SubSeq(s, 1, 1) \in {"+", "-"}
        neg == Len(s) > 0 /\ SubSeq(s, 1, 1) = "-"
        body == IF signed THEN SubSeq(s, 2, Len(s)) ELSE s
    IN  IF body = "" \/ ~IsDigits(body)
        THEN [err |-> "syntax", neg |-> FALSE, abs |-> "0"]
        ELSE LET abs == TrimZeros(body)
             IN  IF \/ neg /\ DecLess(MinInt64Abs, abs)
                    \/ ~neg /\ DecLess(MaxInt64, abs)
                 THEN [err |-> "range", neg |-> neg, abs |-> "0"]
                 ELSE [err |-> "", neg |-> neg /\ abs # "0", abs |-> abs]

\* the decimal digit of a value below ten
DigitChar(d) == <<"0", "1", "2", "3", "4", "5", "6", "7", "8", "9">>[d + 1]

\* the digits of s times k plus carry, for k up to maxPageSize
RECURSIVE DecTimes(_, _, _)
DecTimes(s, k, carry) ==
    IF s = ""
    THEN IF carry = 0 THEN ""
         ELSE DecTimes("", k, carry \div 10) \o DigitChar(carry % 10)
    ELSE LET v == DigitVal[SubSeq(s, Len(s), Len(s))] * k + carry
         IN  DecTimes(SubSeq(s, 1, Len(s) - 1), k, v \div 10) \o DigitChar(v % 10)

\* the digits of a - b - borrow, for a >= b + borrow, as long as a
RECURSIVE DecMinus(_, _, _)
DecMinus(a, b, borrow) ==
    IF a = "" THEN ""
    ELSE LET x == DigitVal[SubSeq(a, Len(a), Len(a))]
             y == (IF b = "" THEN 0 ELSE DigitVal[SubSeq(b, Len(b), Len(b))]) + borrow
             rest == IF b = "" THEN "" ELSE SubSeq(b, 1, Len(b) - 1)
         IN  IF x >= y
             THEN DecMinus(SubSeq(a, 1, Len(a) - 1), rest, 0) \o DigitChar(x - y)
             ELSE DecMinus(SubSeq(a, 1, Len(a) - 1), rest, 1) \o DigitChar(x + 10 - y)

DecSub(a, b) == TrimZeros(DecMinus(a, b, 0))
DecMul(a, k) == IF k = 0 THEN "0" ELSE TrimZeros(DecTimes(a, k, 0))

TwoTo63 == "9223372036854775808"
TwoTo64 == "18446744073709551616"

\* a value that is not negative, as a 64-bit int holds it: the value
\* modulo 2^64, read in two's complement
RECURSIVE Int64Of(_)
Int64Of(v) ==
    IF DecLess(v, TwoTo63) THEN [neg |-> FALSE, abs |-> v]
    ELSE IF DecLess(v, TwoTo64) THEN [neg |-> TRUE, abs |-> DecSub(TwoTo64, v)]
    ELSE Int64Of(DecSub(v, TwoTo64))

-----------------------------------------------------------------------------
(* utils/response.go: pagination *)

defaultPageSize == 20
maxPageSize == 100

\* url.Values.Get: the first value of the key, "" when there is none
QueryGet(query, key) ==
    IF key \in DOMAIN query /\ query[key] # <<>> THEN query[key][1] ELSE ""

\* v >= 1 for a parsed int
AtLeastOne(v) == ~v.neg /\ v.abs # "0"

\* ParsePagination: page as decimal digits (an int of any size), pageSize as
\* a number (at most maxPageSize once clamped; a numeral of more than 3
\* digits without leading zeros is above maxPageSize)
ParsePagination(query) ==
    With(QueryGet(query, "page"), LAMBDA p :
    With(QueryGet(query, "pageSize"), LAMBDA ps :
    With(Atoi(p), LAMBDA pv :
    With(Atoi(ps), LAMBDA psv :
        [page |-> IF p # "" /\ pv.err = "" /\ AtLeastOne(pv) THEN pv.abs ELSE "1",
         pageSize |->
            IF ps # "" /\ psv.err = "" /\ AtLeastOne(psv)
            THEN IF Len(psv.abs) > 3 \/ DecToInt(psv.abs) > maxPageSize
                 THEN maxPageSize
                 ELSE DecToInt(psv.abs)
            ELSE defaultPageSize]))))

-----------------------------------------------------------------------------
(* The relational store (the schema of internal.Migrate) and the requests *)

\* the strings PostgreSQL accepts for $n::uuid that the model uses; uuid.New
\* draws from them
AccountUUIDs == {"a1", "a2"}
TransactionUUIDs == {"t1", "t2"}
UUIDs == AccountUUIDs \cup TransactionUUIDs
IsUUID(s) == s \in UUIDs

\* the order of the values ORDER BY compares
Rank ==
    [s \in {"Checking", "Savings"} \cup UUIDs |->
        CASE s = "Checking" -> 1 [] s = "Savings" -> 2
          [] s = "a1" -> 1 [] s = "a2" -> 2 [] s = "t1" -> 3 [] s = "t2" -> 4]

\* a JSON value of a request body
JString(v) == [t |-> "string", s |-> v, n |-> 0]
JNumber(v) == [t |-> "number", s |-> "", n |-> v]
JNull == [t |-> "null", s |-> "", n |-> 0]

\* a request body: bytes that are no JSON value (the empty body included),
\* or a JSON object
NoJSON == [ok |-> FALSE, obj |-> <<>>]
JObject(fields) == [ok |-> TRUE, obj |-> fields]

\* the JSON objects with, for each key, one of the values or no such key
RECURSIVE ObjectsOver(_, _)
ObjectsOver(keys, values) ==
    IF keys = <<>> THEN {<<>>}
    ELSE LET k == Head(keys)
             rest == ObjectsOver(Tail(keys), values)
         IN  rest \cup {(k :> v) @@ o : v \in values[k], o \in rest}

\* a string field that counts as given only when it is not empty
StringFieldNonEmpty(obj, key) ==
    IF key \notin DOMAIN obj \/ obj[key].t = "null"
    THEN [err |-> FALSE, present |-> FALSE, v |-> ""]
    ELSE IF obj[key].t = "string"
    THEN [err |-> FALSE, present |-> obj[key].s # "", v |-> obj[key].s]
    ELSE [err |-> TRUE, present |-> FALSE, v |-> ""]

\* json.Decoder.Decode into a string field: an absent key and null leave "",
\* a value of another type is an error
StringField(obj, key) ==
    IF key \notin DOMAIN obj \/ obj[key].t = "null"
    THEN [err |-> FALSE, present |-> FALSE, v |-> ""]
    ELSE IF obj[key].t = "string"
    THEN [err |-> FALSE, present |-> TRUE, v |-> obj[key].s]
    ELSE [err |-> TRUE, present |-> FALSE, v |-> ""]

\* json.Decoder.Decode into a float64 field
NumberField(obj, key) ==
    IF key \notin DOMAIN obj \/ obj[key].t = "null"
    THEN [err |-> FALSE, present |-> FALSE, v |-> 0]
    ELSE IF obj[key].t = "number"
    THEN [err |-> FALSE, present |-> TRUE, v |-> obj[key].n]
    ELSE [err |-> TRUE, present |-> FALSE, v |-> 0]

\* what the database says of a failure; the third is no report of a missing
\* row, and has the words of one
PlainErrorText == "database error"
ErrorTexts == {PlainErrorText, "timeout", "host not found"}

\* what a request meets besides the tables: the repository call that fails
\* at the database (0: none) and the text of its error, the value uuid.New
\* returns, whether the store behind the handler is one that returns a nil
\* collection, and the order of rows that ORDER BY leaves open
Envs ==
    {e \in [fault : 0..2, text : ErrorTexts, uuid : UUIDs, nilStore : BOOLEAN,
            tie : {<<"a1", "a2">>, <<"a2", "a1">>}] :
        e.fault = 0 => e.text = PlainErrorText}

\* the error a repository call meets at the database: none is ""
Failure(env, call) == IF env.fault = call THEN env.text ELSE ""

\* fmt.Errorf("...: %w", err): a failure the statement itself causes (a cast,
\* a key) carries the plain text
Wrapped(what, cause) ==
    what \o ": " \o (IF cause = "" THEN PlainErrorText ELSE cause)

\* the responses
ErrorResponse(code, text) ==
    [status |-> code, error |-> text, body |-> [kind |-> "none"]]
JSONResponse(code, body) == [status |-> code, error |-> "", body |-> body]
NotFoundResponse == ErrorResponse(404, "404 page not found")

StatusOK == 200
StatusCreated == 201
StatusBadRequest == 400
StatusNotFound == 404
StatusMethodNotAllowed == 405
StatusInternalServerError == 500

\* a handler's result: the tables, the response, the repository calls
Result(db, response, made) ==
    [accounts |-> db.accounts, transactions |-> db.transactions,
     resp |-> response, calls |-> made]

Call(op, err) == [op |-> op, err |-> err]

\* a collection a repository returns: nil, or the items
NilList == [nil |-> TRUE, items |-> <<>>]
List(items) == [nil |-> FALSE, items |-> items]

-----------------------------------------------------------------------------
(* repositories: AccountRepository *)

\* the rows of a table as resources, in the order of the keys given
RECURSIVE RowsInOrder(_, _)
RowsInOrder(table, ids) ==
    IF ids = <<>> THEN <<>>
    ELSE (IF Head(ids) \in DOMAIN table
          THEN <<[id |-> Head(ids)] @@ table[Head(ids)]>>
          ELSE <<>>) \o RowsInOrder(table, Tail(ids))

\* sorted by a key (a function of the row's id), stable: insertion sort
RECURSIVE InsertBy(_, _, _)
InsertBy(row, sorted, key) ==
    IF sorted = <<>> THEN <<row>>
    ELSE IF key[row.id] < key[Head(sorted).id]
    THEN <<row>> \o sorted
    ELSE <<Head(sorted)>> \o InsertBy(row, Tail(sorted), key)

RECURSIVE SortBy(_, _)
SortBy(rows, key) ==
    IF rows = <<>> THEN <<>>
    ELSE InsertBy(rows[Len(rows)], SortBy(SubSeq(rows, 1, Len(rows) - 1), key), key)

\* LIMIT pageSize OFFSET offset
LimitOffset(rows, limit, offset) ==
    SubSeq(rows, offset + 1, IF offset + limit < Len(rows) THEN offset + limit ELSE Len(rows))

\* offset := (page - 1) * pageSize of GetAll and GetByAccountID, for a page
\* of at least one: the product, and the int that holds it
Offset(page, pageSize) ==
    With(DecMul(DecSub(page, "1"), pageSize), LAMBDA product :
        [product |-> product, offset |-> Int64Of(product)])

\* page, pageSize as the repositories bound them, and the offset; the pages
\* of the requests served here are short numerals
PageOffset(page, pageSize) ==
    LET p == IF page = "0" THEN 1 ELSE DecToInt(page)
        ps == IF pageSize < 1 THEN defaultPageSize
              ELSE IF pageSize > maxPageSize THEN maxPageSize ELSE pageSize
    IN  [limit |-> ps, offset |-> (p - 1) * ps]

\* AccountRepository.GetAll
AccountRepositoryGetAll(db, page, pageSize, fails, tie) ==
    IF fails # ""
    THEN [err |-> Wrapped("count accounts", fails), list |-> NilList, total |-> 0]
    ELSE LET po == PageOffset(page, pageSize)
             rows == SortBy(RowsInOrder(db.accounts, tie),
                            [i \in DOMAIN db.accounts |-> Rank[db.accounts[i].name]])
         IN  [err |-> "",
              list |-> List(LimitOffset(rows, po.limit, po.offset)),
              total |-> Cardinality(DOMAIN db.accounts)]

\* fakeAccountStore.GetAll with no getAllFunc: a nil collection
FakeAccountStoreGetAll == [err |-> "", list |-> NilList, total |-> 0]

\* AccountStore.GetAll of the store behind the handler
AccountStoreGetAll(db, page, pageSize, env) ==
    IF env.nilStore /\ env.fault # 1
    THEN FakeAccountStoreGetAll
    ELSE AccountRepositoryGetAll(db, page, pageSize, Failure(env, 1), env.tie)

\* an INSERT that replaces the row of a primary key that exists
AccountRepositoryCreateReplacing(db, a, uuid, fails) ==
    IF fails # ""
    THEN [err |-> Wrapped("insert account", fails), db |-> db, id |-> uuid]
    ELSE [err |-> "",
          db |-> [db EXCEPT !.accounts =
                      (uuid :> [name |-> a.name, type |-> a.type]) @@ db.accounts],
          id |-> uuid]

\* AccountRepository.Create: the INSERT fails on a primary key that exists
AccountRepositoryCreate(db, a, uuid, fails) ==
    IF fails # "" \/ uuid \in DOMAIN db.accounts
    THEN [err |-> Wrapped("insert account", fails), db |-> db, id |-> uuid]
    ELSE [err |-> "",
          db |-> [db EXCEPT !.accounts =
                      (uuid :> [name |-> a.name, type |-> a.type]) @@ db.accounts],
          id |-> uuid]

\* an UPDATE that sets the name and leaves the type
AccountRepositoryUpdateNameOnly(db, a, fails) ==
    IF fails # "" \/ ~IsUUID(a.id)
    THEN [err |-> Wrapped("update account", fails), db |-> db, access |-> TRUE]
    ELSE [err |-> "",
          db |-> IF a.id \in DOMAIN db.accounts
                 THEN [db EXCEPT !.accounts[a.id].name = a.name]
                 ELSE db,
          access |-> TRUE]

\* AccountRepository.Update: the UPDATE changes the row of the id, if any,
\* and the rows affected are not looked at
AccountRepositoryUpdate(db, a, fails) ==
    IF a.id = "" THEN [err |-> "account ID is required", db |-> db, access |-> FALSE]
    ELSE IF a.name = "" THEN [err |-> "account name is required", db |-> db, access |-> FALSE]
    ELSE IF a.type = "" THEN [err |-> "account type is required", db |-> db, access |-> FALSE]
    ELSE IF fails # "" \/ ~IsUUID(a.id)
    THEN [err |-> Wrapped("update account", fails), db |-> db, access |-> TRUE]
    ELSE [err |-> "",
          db |-> IF a.id \in DOMAIN db.accounts
                 THEN [db EXCEPT !.accounts[a.id] = [name |-> a.name, type |-> a.type]]
                 ELSE db,
          access |-> TRUE]

\* a foreign key without ON DELETE CASCADE that lets the delete through
NoCascadeDelete(txs, id) == txs

\* ON DELETE CASCADE: the transactions left once the account is deleted
CascadeDelete(txs, id) ==
    [t \in {u \in DOMAIN txs : txs[u].account_id # id} |-> txs[t]]

\* AccountRepository.Delete: the DELETE removes the row of the id, if any,
\* and the rows affected are not looked at
AccountRepositoryDelete(db, id, fails) ==
    IF id = "" THEN [err |-> "account ID is required", db |-> db, access |-> FALSE]
    ELSE IF fails # "" \/ ~IsUUID(id)
    THEN [err |-> Wrapped("delete account", fails), db |-> db, access |-> TRUE]
    ELSE [err |-> "",
          db |-> [accounts |-> [i \in DOMAIN db.accounts \ {id} |-> db.accounts[i]],
                  transactions |-> CascadeDelete(db.transactions, id)],
          access |-> TRUE]

-----------------------------------------------------------------------------
(* handlers: AccountHandler *)

accountsPathPrefix == "/accounts/"

\* the types the message of CreateAccount lists
allowedAccountTypesOfMessage == {"bank", "cash", "credit", "other"}

allowedAccountTypes == {"bank", "cash", "other"}

\* Decode into createAccountRequest, and into the struct of UpdateAccount
DecodeAccount(body) ==
    IF ~body.ok THEN [err |-> TRUE, name |-> "", type |-> ""]
    ELSE LET name == StringField(body.obj, "name")
             type == StringField(body.obj, "type")
         IN  [err |-> name.err \/ type.err, name |-> name.v, type |-> type.v]

AccountResource(id, name, type) ==
    [kind |-> "account", id |-> id, name |-> name, type |-> type]

ListEnvelope(list, total, page, pageSize) ==
    [kind |-> "list", data |-> list, total |-> total, page |-> page,
     pageSize |-> pageSize]

Message(text) == [kind |-> "message", message |-> text]

\* the collection written as returned: a nil one stays nil
NonNilAsReturned(list) == list

\* if accounts == nil { accounts = []*models.Account{} }, and the same test
\* on the list of ListTransactions
NonNil(list) == IF list.nil THEN List(<<>>) ELSE list

\* a list of accounts that answers a failure with the error of the store
ListAccountsWithErrorText(r, db, env) ==
    IF r.method # MethodGet
    THEN Result(db, ErrorResponse(StatusMethodNotAllowed, "method not allowed"), <<>>)
    ELSE
        With(ParsePagination(r.query), LAMBDA pg :
        With(AccountStoreGetAll(db, pg.page, pg.pageSize, env), LAMBDA got :
        With(<<Call("AccountStore.GetAll", got.err)>>, LAMBDA made :
            IF got.err # ""
            THEN Result(db, ErrorResponse(StatusInternalServerError, got.err), made)
            ELSE Result(db,
                    JSONResponse(StatusOK,
                        ListEnvelope(NonNil(got.list),
                                     got.total, pg.page, pg.pageSize)),
                    made))))

\* AccountHandler.ListAccounts
ListAccounts(r, db, env) ==
    IF r.method # MethodGet
    THEN Result(db, ErrorResponse(StatusMethodNotAllowed, "method not allowed"), <<>>)
    ELSE
        With(ParsePagination(r.query), LAMBDA pg :
        With(AccountStoreGetAll(db, pg.page, pg.pageSize, env), LAMBDA got :
        With(<<Call("AccountStore.GetAll", got.err)>>, LAMBDA made :
            IF got.err # ""
            THEN Result(db, ErrorResponse(StatusInternalServerError, "failed to list accounts"), made)
            ELSE Result(db,
                    JSONResponse(StatusOK,
                        ListEnvelope(NonNil(got.list),
                                     got.total, pg.page, pg.pageSize)),
                    made))))

\* CreateAccount of the older handlers package (src/handlers), behind the
\* README: the name is required and the type is taken as it comes
CreateAccountNameOnly(r, db, env) ==
    IF r.method # MethodPost
    THEN Result(db, ErrorResponse(StatusMethodNotAllowed, "method not allowed"), <<>>)
    ELSE
        LET q == DecodeAccount(r.body)
        IN  IF q.err
            THEN Result(db, ErrorResponse(StatusBadRequest, "invalid JSON"), <<>>)
            ELSE IF q.name = ""
            THEN Result(db, ErrorResponse(StatusBadRequest, "name is required"), <<>>)
            ELSE
                LET done == AccountRepositoryCreate(db, [name |-> q.name, type |-> q.type],
                                                    env.uuid, Failure(env, 1))
                    made == <<Call("AccountStore.Create", done.err)>>
                IN  IF done.err # ""
                    THEN Result(db, ErrorResponse(StatusInternalServerError,
                                        "failed to create account"), made)
                    ELSE Result(done.db,
                            JSONResponse(StatusCreated,
                                AccountResource(done.id, q.name, q.type)),
                            made)

\* AccountHandler.CreateAccount
CreateAccount(r, db, env) ==
    IF r.method # MethodPost
    THEN Result(db, ErrorResponse(StatusMethodNotAllowed, "method not allowed"), <<>>)
    ELSE
        LET q == DecodeAccount(r.body)
        IN  IF q.err
            THEN Result(db, ErrorResponse(StatusBadRequest, "invalid JSON"), <<>>)
            ELSE IF q.name = ""
            THEN Result(db, ErrorResponse(StatusBadRequest, "name is required"), <<>>)
            ELSE IF q.type = ""
            THEN Result(db, ErrorResponse(StatusBadRequest, "type is required"), <<>>)
            ELSE IF q.type \notin allowedAccountTypes
            THEN Result(db, ErrorResponse(StatusBadRequest,
                                "type must be one of: bank, cash, credit, other"), <<>>)
            ELSE
                LET done == AccountRepositoryCreate(db, [name |-> q.name, type |-> q.type],
                                                    env.uuid, Failure(env, 1))
                    made == <<Call("AccountStore.Create", done.err)>>
                IN  IF done.err # ""
                    THEN Result(db, ErrorResponse(StatusInternalServerError,
                                        "failed to create account"), made)
                    ELSE Result(done.db,
                            JSONResponse(StatusCreated,
                                AccountResource(done.id, q.name, q.type)),
                            made)

\* a path parser that takes whatever follows the prefix as the id
accountIDFromPathAnyRest(path) ==
    IF ~HasPrefix(path, accountsPathPrefix) THEN "" ELSE TrimPrefix(path, accountsPathPrefix)

\* accountIDFromPath
accountIDFromPath(path) ==
    IF ~HasPrefix(path, accountsPathPrefix) THEN ""
    ELSE LET id == TrimPrefix(path, accountsPathPrefix)
         IN  IF id = "" \/ Contains(id, "/") THEN "" ELSE id

\* AccountHandler.UpdateAccount
UpdateAccount(r, db, env) ==
    IF r.method # MethodPut
    THEN Result(db, ErrorResponse(StatusMethodNotAllowed, "method not allowed"), <<>>)
    ELSE
        LET id == accountIDFromPath(r.path)
            q == DecodeAccount(r.body)
        IN  IF id = ""
            THEN Result(db, ErrorResponse(StatusBadRequest, "invalid account ID in path"), <<>>)
            ELSE IF q.err
            THEN Result(db, ErrorResponse(StatusBadRequest, "invalid JSON"), <<>>)
            ELSE IF q.name = ""
            THEN Result(db, ErrorResponse(StatusBadRequest, "name is required"), <<>>)
            ELSE IF q.type = ""
            THEN Result(db, ErrorResponse(StatusBadRequest, "type is required"), <<>>)
            ELSE IF q.type \notin allowedAccountTypes
            THEN Result(db, ErrorResponse(StatusBadRequest,
                                "type must be one of: bank, cash, other"), <<>>)
            ELSE
                LET done == AccountRepositoryUpdate(db,
                                [id |-> id, name |-> q.name, type |-> q.type],
                                Failure(env, 1))
                    made == <<Call("AccountStore.Update", done.err)>>
                IN  IF done.err # ""
                    THEN Result(db, ErrorResponse(StatusInternalServerError,
                                        "failed to update account"), made)
                    ELSE Result(done.db,
                            JSONResponse(StatusOK, AccountResource(id, q.name, q.type)),
                            made)

\* a delete handler that does not look at the method
DeleteAccountOfAnyMethod(r, db, env) ==
    LET fromPath == accountIDFromPath(r.path)
        accID == IF fromPath = "" THEN QueryGet(r.query, "id") ELSE fromPath
        done == AccountRepositoryDelete(db, accID, Failure(env, 1))
        made == <<Call("AccountStore.Delete", done.err)>>
    IN  IF accID = ""
        THEN Result(db, ErrorResponse(StatusBadRequest, "ID is required (path or query)"), <<>>)
        ELSE IF done.err # ""
        THEN Result(db, ErrorResponse(StatusInternalServerError, "failed to delete account"), made)
        ELSE Result(done.db, JSONResponse(StatusOK, Message("account deleted")), made)

\* AccountHandler.DeleteAccount
DeleteAccount(r, db, env) ==
    IF r.method # MethodDelete
    THEN Result(db, ErrorResponse(StatusMethodNotAllowed, "method not allowed"), <<>>)
    ELSE
        LET fromPath == accountIDFromPath(r.path)
            accID == IF fromPath = "" THEN QueryGet(r.query, "id") ELSE fromPath
        IN  IF accID = ""
            THEN Result(db, ErrorResponse(StatusBadRequest,
                                "ID is required (path or query)"), <<>>)
            ELSE
                LET done == AccountRepositoryDelete(db, accID, Failure(env, 1))
                    made == <<Call("AccountStore.Delete", done.err)>>
                IN  IF done.err # ""
                    THEN Result(db, ErrorResponse(StatusInternalServerError,
                                        "failed to delete account"), made)
                    ELSE Result(done.db,
                            JSONResponse(StatusOK, Message("account deleted")),
                            made)

-----------------------------------------------------------------------------
(* repositories: TransactionRepository *)

\* utils.ParseDate: time.Parse(time.RFC3339, s) on the timestamps the model
\* uses; the instant and the zone offset in minutes
RFC3339 ==
    [s \in {"2024-01-15T10:00:00Z", "2024-01-15T12:00:00+02:00", "2024-02-01T00:00:00Z"} |->
        CASE s = "2024-01-15T10:00:00Z" -> [unix |-> 1, offset |-> 0]
          [] s = "2024-01-15T12:00:00+02:00" -> [unix |-> 1, offset |-> 120]
          [] s = "2024-02-01T00:00:00Z" -> [unix |-> 2, offset |-> 0]]

ZeroTime == [unix |-> 0, offset |-> 0]

\* a parser that takes any string, giving the zero time for what it cannot read
ParseDateLenient(s) ==
    [err |-> FALSE, time |-> IF s \in DOMAIN RFC3339 THEN RFC3339[s] ELSE ZeroTime]

\* utils.ParseDate
ParseDate(s) ==
    IF s \in DOMAIN RFC3339
    THEN [err |-> FALSE, time |-> RFC3339[s]]
    ELSE [err |-> TRUE, time |-> ZeroTime]

\* a row of transactions as Scan reads it: TIMESTAMPTZ keeps the instant
ScanTransaction(id, row) ==
    [kind |-> "transaction", id |-> id, account_id |-> row.account_id,
     amount |-> row.amount, date |-> [unix |-> row.date, offset |-> 0],
     description |-> row.description, type |-> row.type]

RECURSIVE ScanTransactions(_, _)
ScanTransactions(table, ids) ==
    IF ids = <<>> THEN <<>>
    ELSE <<ScanTransaction(Head(ids), table[Head(ids)])>> \o ScanTransactions(table, Tail(ids))

\* a sequence of the elements of a set of ids, by rank
RECURSIVE ByRank(_)
ByRank(ids) ==
    IF ids = {} THEN <<>>
    ELSE LET first == CHOOSE i \in ids : \A j \in ids : Rank[i] <= Rank[j]
         IN  <<first>> \o ByRank(ids \ {first})

\* fakeTransactionStore.GetByAccountID with no getByAccountIDFunc
FakeTransactionStoreGetByAccountID == [err |-> "", list |-> NilList, total |-> 0, access |-> FALSE]

\* TransactionRepository.GetByAccountID: ORDER BY date DESC, id
TransactionRepositoryGetByAccountID(db, accountID, page, pageSize, fails) ==
    IF accountID = ""
    THEN [err |-> "account ID is required", list |-> NilList, total |-> 0, access |-> FALSE]
    ELSE IF fails # "" \/ ~IsUUID(accountID)
    THEN [err |-> Wrapped("count transactions", fails), list |-> NilList, total |-> 0,
          access |-> TRUE]
    ELSE LET po == PageOffset(page, pageSize)
             mine == {t \in DOMAIN db.transactions :
                        db.transactions[t].account_id = accountID}
             rows == SortBy(ScanTransactions(db.transactions, ByRank(mine)),
                            [t \in mine |-> 0 - db.transactions[t].date])
         IN  [err |-> "",
              list |-> List(LimitOffset(rows, po.limit, po.offset)),
              total |-> Cardinality(mine),
              access |-> TRUE]

\* TransactionStore.GetByAccountID of the store behind the handler
TransactionStoreGetByAccountID(db, accountID, page, pageSize, env) ==
    IF env.nilStore /\ env.fault # 1
    THEN FakeTransactionStoreGetByAccountID
    ELSE TransactionRepositoryGetByAccountID(db, accountID, page, pageSize, Failure(env, 1))

NoTransaction ==
    [kind |-> "none"]

\* TransactionRepository.GetByID: the row, or none (pgx.ErrNoRows)
TransactionRepositoryGetByID(db, accountID, transactionID, fails) ==
    IF accountID = ""
    THEN [err |-> "account ID is required", found |-> FALSE, tx |-> NoTransaction, access |-> FALSE]
    ELSE IF transactionID = ""
    THEN [err |-> "transaction ID is required", found |-> FALSE, tx |-> NoTransaction,
          access |-> FALSE]
    ELSE IF fails # "" \/ ~IsUUID(accountID) \/ ~IsUUID(transactionID)
    THEN [err |-> Wrapped("get transaction", fails), found |-> FALSE, tx |-> NoTransaction,
          access |-> TRUE]
    ELSE IF /\ transactionID \in DOMAIN db.transactions
            /\ db.transactions[transactionID].account_id = accountID
    THEN [err |-> "", found |-> TRUE,
          tx |-> ScanTransaction(transactionID, db.transactions[transactionID]),
          access |-> TRUE]
    ELSE [err |-> "", found |-> FALSE, tx |-> NoTransaction, access |-> TRUE]

\* amount NUMERIC(18,4): amounts are counted in units of 0.00001, and the
\* column keeps four decimals, rounding half away from zero
Numeric184(v) ==
    IF v >= 0 THEN ((v + 5) \div 10) * 10 ELSE 0 - (((0 - v) + 5) \div 10) * 10

\* the row INSERT and UPDATE write for a transaction
TransactionRow(tx) ==
    [account_id |-> tx.account_id, amount |-> Numeric184(tx.amount), date |-> tx.date.unix,
     description |-> tx.description, type |-> tx.type]

\* TransactionRepository.Create: the INSERT fails on a primary key that
\* exists and on an account_id that REFERENCES no account
TransactionRepositoryCreate(db, tx, uuid, fails) ==
    IF tx.account_id = ""
    THEN [err |-> "account ID is required", db |-> db, id |-> "", access |-> FALSE]
    ELSE IF tx.type = ""
    THEN [err |-> "transaction type is required", db |-> db, id |-> "", access |-> FALSE]
    ELSE IF tx.type # "income" /\ tx.type # "expense"
    THEN [err |-> "transaction type must be income or expense", db |-> db, id |-> "",
          access |-> FALSE]
    ELSE IF \/ fails # ""
            \/ ~IsUUID(tx.account_id)
            \/ uuid \in DOMAIN db.transactions
            \/ tx.account_id \notin DOMAIN db.accounts
    THEN [err |-> Wrapped("insert transaction", fails), db |-> db, id |-> uuid, access |-> TRUE]
    ELSE [err |-> "",
          db |-> [db EXCEPT !.transactions = (uuid :> TransactionRow(tx)) @@ db.transactions],
          id |-> uuid, access |-> TRUE]

\* an UPDATE that sets the amount and leaves the other columns
TransactionRepositoryUpdateAmountOnly(db, tx, fails) ==
    IF fails # "" \/ ~IsUUID(tx.account_id) \/ ~IsUUID(tx.id)
    THEN [err |-> Wrapped("update transaction", fails), db |-> db, access |-> TRUE]
    ELSE IF ~(/\ tx.id \in DOMAIN db.transactions
              /\ db.transactions[tx.id].account_id = tx.account_id)
    THEN [err |-> "transaction not found", db |-> db, access |-> TRUE]
    ELSE [err |-> "",
          db |-> [db EXCEPT !.transactions[tx.id].amount = Numeric184(tx.amount)],
          access |-> TRUE]

\* an Update that tests the account ID before the transaction ID
TransactionRepositoryUpdateAccountFirst(db, tx, fails) ==
    IF tx.account_id = ""
    THEN [err |-> "account ID is required", db |-> db, access |-> FALSE]
    ELSE IF tx.id = ""
    THEN [err |-> "transaction ID is required", db |-> db, access |-> FALSE]
    ELSE IF tx.type = ""
    THEN [err |-> "transaction type is required", db |-> db, access |-> FALSE]
    ELSE IF tx.type # "income" /\ tx.type # "expense"
    THEN [err |-> "transaction type must be income or expense", db |-> db, access |-> FALSE]
    ELSE IF fails # "" \/ ~IsUUID(tx.account_id) \/ ~IsUUID(tx.id)
    THEN [err |-> Wrapped("update transaction", fails), db |-> db, access |-> TRUE]
    ELSE IF ~(/\ tx.id \in DOMAIN db.transactions
              /\ db.transactions[tx.id].account_id = tx.account_id)
    THEN [err |-> "transaction not found", db |-> db, access |-> TRUE]
    ELSE [err |-> "",
          db |-> [db EXCEPT !.transactions[tx.id] = TransactionRow(tx)],
          access |-> TRUE]

\* TransactionRepository.Update: no row affected is "transaction not found"
TransactionRepositoryUpdate(db, tx, fails) ==
    IF tx.id = ""
    THEN [err |-> "transaction ID is required", db |-> db, access |-> FALSE]
    ELSE IF tx.account_id = ""
    THEN [err |-> "account ID is required", db |-> db, access |-> FALSE]
    ELSE IF tx.type = ""
    THEN [err |-> "transaction type is required", db |-> db, access |-> FALSE]
    ELSE IF tx.type # "income" /\ tx.type # "expense"
    THEN [err |-> "transaction type must be income or expense", db |-> db, access |-> FALSE]
    ELSE IF fails # "" \/ ~IsUUID(tx.account_id) \/ ~IsUUID(tx.id)
    THEN [err |-> Wrapped("update transaction", fails), db |-> db, access |-> TRUE]
    ELSE IF ~(/\ tx.id \in DOMAIN db.transactions
              /\ db.transactions[tx.id].account_id = tx.account_id)
    THEN [err |-> "transaction not found", db |-> db, access |-> TRUE]
    ELSE [err |-> "",
          db |-> [db EXCEPT !.transactions[tx.id] = TransactionRow(tx)],
          access |-> TRUE]

\* TransactionRepository.Delete: no row affected is "transaction not found"
TransactionRepositoryDelete(db, accountID, transactionID, fails) ==
    IF accountID = ""
    THEN [err |-> "account ID is required", db |-> db, access |-> FALSE]
    ELSE IF transactionID = ""
    THEN [err |-> "transaction ID is required", db |-> db, access |-> FALSE]
    ELSE IF fails # "" \/ ~IsUUID(accountID) \/ ~IsUUID(transactionID)
    THEN [err |-> Wrapped("delete transaction", fails), db |-> db, access |-> TRUE]
    ELSE IF ~(/\ transactionID \in DOMAIN db.transactions
              /\ db.transactions[transactionID].account_id = accountID)
    THEN [err |-> "transaction not found", db |-> db, access |-> TRUE]
    ELSE [err |-> "",
          db |-> [db EXCEPT !.transactions =
                    [t \in DOMAIN db.transactions \ {transactionID} |-> db.transactions[t]]],
          access |-> TRUE]

-----------------------------------------------------------------------------
(* handlers: TransactionHandler *)

\* a set of types with one more kind of transaction
allowedTransactionTypesWithTransfer == {"income", "expense", "transfer"}

allowedTransactionTypes == {"income", "expense"}

\* Decode into createTransactionRequest, and into the struct of pointers of
\* UpdateTransaction (present: the pointer is not nil)
DecodeTransaction(body) ==
    IF ~body.ok
    THEN [err |-> TRUE,
          amount |-> NumberField(<<>>, "amount"), date |-> StringField(<<>>, "date"),
          description |-> StringField(<<>>, "description"), type |-> StringField(<<>>, "type")]
    ELSE LET amount == NumberField(body.obj, "amount")
             date == StringField(body.obj, "date")
             description == StringField(body.obj, "description")
             type == StringField(body.obj, "type")
         IN  [err |-> amount.err \/ date.err \/ description.err \/ type.err,
              amount |-> amount, date |-> date, description |-> description, type |-> type]

\* strings.Contains(err.Error(), "not found")
ContainsNotFound(err) ==
    \E i \in 1..(Len(err) - Len("not found") + 1) :
        SubSeq(err, i, i + Len("not found") - 1) = "not found"

\* TransactionHandler.ListTransactions
ListTransactions(r, db, env) ==
    IF r.method # MethodGet
    THEN Result(db, ErrorResponse(StatusMethodNotAllowed, "method not allowed"), <<>>)
    ELSE
        With(accountIDAndTransactionIDFromPath(r.path), LAMBDA ids :
            IF ids.accountID = ""
            THEN Result(db, ErrorResponse(StatusBadRequest, "invalid account ID in path"), <<>>)
            ELSE IF ids.transactionID # ""
            THEN
                With(TransactionRepositoryGetByID(db, ids.accountID, ids.transactionID,
                                                  Failure(env, 1)), LAMBDA got :
                With(<<Call("TransactionStore.GetByID", got.err)>>, LAMBDA made :
                    IF got.err # ""
                    THEN Result(db, ErrorResponse(StatusInternalServerError,
                                        "failed to get transaction"), made)
                    ELSE IF ~got.found
                    THEN Result(db, NotFoundResponse, made)
                    ELSE Result(db, JSONResponse(StatusOK, got.tx), made)))
            ELSE
                With(ParsePagination(r.query), LAMBDA pg :
                With(TransactionStoreGetByAccountID(db, ids.accountID, pg.page,
                                                    pg.pageSize, env), LAMBDA got :
                With(<<Call("TransactionStore.GetByAccountID", got.err)>>, LAMBDA made :
                    IF got.err # ""
                    THEN Result(db, ErrorResponse(StatusInternalServerError,
                                        "failed to list transactions"), made)
                    ELSE Result(db,
                            JSONResponse(StatusOK,
                                ListEnvelope(NonNil(got.list),
                                             got.total, pg.page, pg.pageSize)),
                            made)))))

\* TransactionHandler.CreateTransaction
CreateTransaction(r, db, env) ==
    IF r.method # MethodPost
    THEN Result(db, ErrorResponse(StatusMethodNotAllowed, "method not allowed"), <<>>)
    ELSE
        With(accountIDAndTransactionIDFromPath(r.path), LAMBDA ids :
        With(DecodeTransaction(r.body), LAMBDA q :
        With(ParseDate(q.date.v), LAMBDA date :
            IF ids.accountID = "" \/ ids.transactionID # ""
            THEN Result(db, ErrorResponse(StatusBadRequest,
                                "invalid path for create transaction"), <<>>)
            ELSE IF q.err
            THEN Result(db, ErrorResponse(StatusBadRequest, "invalid JSON"), <<>>)
            ELSE IF q.type.v = ""
            THEN Result(db, ErrorResponse(StatusBadRequest, "type is required"), <<>>)
            ELSE IF q.type.v \notin allowedTransactionTypes
            THEN Result(db, ErrorResponse(StatusBadRequest,
                                "type must be one of: income, expense"), <<>>)
            ELSE IF q.date.v = ""
            THEN Result(db, ErrorResponse(StatusBadRequest, "date is required"), <<>>)
            ELSE IF date.err
            THEN Result(db, ErrorResponse(StatusBadRequest, "invalid date (use RFC3339)"), <<>>)
            ELSE
                With([kind |-> "transaction", id |-> "", account_id |-> ids.accountID,
                      amount |-> q.amount.v, date |-> date.time,
                      description |-> q.description.v, type |-> q.type.v], LAMBDA tx :
                With(TransactionRepositoryCreate(db, tx, env.uuid, Failure(env, 1)), LAMBDA done :
                With(<<Call("TransactionStore.Create", done.err)>>, LAMBDA made :
                    IF done.err # ""
                    THEN Result(db, ErrorResponse(StatusInternalServerError,
                                        "failed to create transaction"), made)
                    ELSE Result(done.db,
                            JSONResponse(StatusCreated, [tx EXCEPT !.id = done.id]),
                            made)))))))

\* TransactionHandler.UpdateTransaction up to the answer of GetByID: the
\* response, if the request ends here, or else the body decoded and the
\* transaction fetched
UpdateTransactionFetch(r, db, env) ==
    IF r.method # MethodPut
    THEN [ended |-> TRUE,
          out |-> Result(db, ErrorResponse(StatusMethodNotAllowed, "method not allowed"), <<>>)]
    ELSE
        With(accountIDAndTransactionIDFromPath(r.path), LAMBDA ids :
        With(DecodeTransaction(r.body), LAMBDA q :
            IF ids.accountID = "" \/ ids.transactionID = ""
            THEN [ended |-> TRUE,
                  out |-> Result(db, ErrorResponse(StatusBadRequest,
                                "invalid path for update transaction"), <<>>)]
            ELSE IF q.err
            THEN [ended |-> TRUE,
                  out |-> Result(db, ErrorResponse(StatusBadRequest, "invalid JSON"), <<>>)]
            ELSE
                With(TransactionRepositoryGetByID(db, ids.accountID, ids.transactionID,
                                                  Failure(env, 1)), LAMBDA got :
                With(<<Call("TransactionStore.GetByID", got.err)>>, LAMBDA fetched :
                    IF got.err # ""
                    THEN [ended |-> TRUE,
                          out |-> Result(db, ErrorResponse(StatusInternalServerError,
                                        "failed to get transaction"), fetched)]
                    ELSE IF ~got.found
                    THEN [ended |-> TRUE, out |-> Result(db, NotFoundResponse, fetched)]
                    ELSE [ended |-> FALSE, q |-> q, existing |-> got.tx,
                          calls |-> fetched]))))

\* an update that puts the fields given into the row as it is when it writes
UpdateTransactionWriteOnRowRead(q, fetched, calls_, db, env) ==
    With(IF fetched.id \in DOMAIN db.transactions
         THEN ScanTransaction(fetched.id, db.transactions[fetched.id])
         ELSE fetched, LAMBDA current :
    With(ParseDate(q.date.v), LAMBDA date :
        With([current EXCEPT
                !.amount = IF q.amount.present THEN q.amount.v ELSE @,
                !.date = IF q.date.present THEN date.time ELSE @,
                !.description =
                    IF q.description.present THEN q.description.v ELSE @,
                !.type = IF q.type.present THEN q.type.v ELSE @],
             LAMBDA existing :
        With(TransactionRepositoryUpdate(db, existing, Failure(env, 2)),
             LAMBDA done :
        With(calls_ \o <<Call("TransactionStore.Update", done.err)>>,
             LAMBDA made :
            IF done.err # ""
            THEN Result(db, ErrorResponse(StatusInternalServerError,
                                "failed to update transaction"), made)
            ELSE Result(done.db, JSONResponse(StatusOK, existing), made))))))

\* TransactionHandler.UpdateTransaction from the transaction fetched on: the
\* fields given are put into it, and it is written
UpdateTransactionWrite(q, fetched, calls_, db, env) ==
    With(ParseDate(q.date.v), LAMBDA date :
        IF q.date.present /\ date.err
        THEN Result(db, ErrorResponse(StatusBadRequest,
                            "invalid date (use RFC3339)"), calls_)
        ELSE IF q.type.present /\ q.type.v \notin allowedTransactionTypes
        THEN Result(db, ErrorResponse(StatusBadRequest,
                            "type must be one of: income, expense"), calls_)
        ELSE
            With([fetched EXCEPT
                    !.amount = IF q.amount.present THEN q.amount.v ELSE @,
                    !.date = IF q.date.present THEN date.time ELSE @,
                    !.description =
                        IF q.description.present THEN q.description.v ELSE @,
                    !.type = IF q.type.present THEN q.type.v ELSE @],
                 LAMBDA existing :
            With(TransactionRepositoryUpdate(db, existing, Failure(env, 2)),
                 LAMBDA done :
            With(calls_ \o <<Call("TransactionStore.Update", done.err)>>,
                 LAMBDA made :
                IF done.err # ""
                THEN Result(db, ErrorResponse(StatusInternalServerError,
                                    "failed to update transaction"), made)
                ELSE Result(done.db, JSONResponse(StatusOK, existing), made)))))

\* TransactionHandler.UpdateTransaction
UpdateTransaction(r, db, env) ==
    With(UpdateTransactionFetch(r, db, env), LAMBDA f :
        IF f.ended THEN f.out
        ELSE UpdateTransactionWrite(f.q, f.existing, f.calls, db, env))

\* TransactionHandler.DeleteTransaction
DeleteTransaction(r, db, env) ==
    IF r.method # MethodDelete
    THEN Result(db, ErrorResponse(StatusMethodNotAllowed, "method not allowed"), <<>>)
    ELSE
        With(accountIDAndTransactionIDFromPath(r.path), LAMBDA ids :
            IF ids.accountID = "" \/ ids.transactionID = ""
            THEN Result(db, ErrorResponse(StatusBadRequest,
                                "invalid path for delete transaction"), <<>>)
            ELSE
                With(TransactionRepositoryDelete(db, ids.accountID, ids.transactionID,
                                                 Failure(env, 1)), LAMBDA done :
                With(<<Call("TransactionStore.Delete", done.err)>>, LAMBDA made :
                    IF done.err # ""
                    THEN IF ContainsNotFound(done.err)
                         THEN Result(db, NotFoundResponse, made)
                         ELSE Result(db, ErrorResponse(StatusInternalServerError,
                                            "failed to delete transaction"), made)
                    ELSE Result(done.db,
                            JSONResponse(StatusOK, Message("transaction deleted")),
                            made))))

-----------------------------------------------------------------------------
(* The API specification: requests served through the registered router *)

\* the handler registered for GET /
OK(r, db, env) ==
    Result(db, [status |-> StatusOK, error |-> "", body |-> [kind |-> "text", text |-> "OK"]], <<>>)

\* the router of getRouter serving a request
ServeRegistered(r, db, env) ==
    LET routed == newRouter(RegisteredRoutes, r.method, r.path)
        handler == RegisteredRoutes[routed.calls[1]].handler
    IN  IF routed.status = StatusNotFound
        THEN Result(db, NotFoundResponse, <<>>)
        ELSE IF routed.status = StatusMethodNotAllowed
        THEN Result(db, ErrorResponse(StatusMethodNotAllowed, "method not allowed"), <<>>)
        ELSE CASE handler = "OK" -> OK(r, db, env)
               [] handler = "ListAccounts" -> ListAccounts(r, db, env)
               [] handler = "CreateAccount" -> CreateAccount(r, db, env)
               [] handler = "UpdateAccount" -> UpdateAccount(r, db, env)
               [] handler = "DeleteAccount" -> DeleteAccount(r, db, env)
               [] handler = "ListTransactions" -> ListTransactions(r, db, env)
               [] handler = "CreateTransaction" -> CreateTransaction(r, db, env)
               [] handler = "UpdateTransaction" -> UpdateTransaction(r, db, env)
               [] handler = "DeleteTransaction" -> DeleteTransaction(r, db, env)

\* the requests
NoValues == [page |-> <<>>, pageSize |-> <<>>, id |-> <<>>]
Request(method, path, query, body) ==
    [method |-> method, path |-> path, query |-> query, body |-> body]

\* ids in request paths: the uuids, and a string that is no uuid
PathAccountIDs == AccountUUIDs \cup {"zz"}

AccountPaths == {"/accounts/" \o i : i \in PathAccountIDs}
TransactionsPaths == {"/accounts/" \o i \o "/transactions" : i \in PathAccountIDs}
TransactionPaths ==
    {"/accounts/" \o i \o "/transactions/" \o t : i \in AccountUUIDs, t \in TransactionUUIDs}
        \cup {"/accounts/a1/transactions/zz"}
\* the transaction paths that carry a body
UpdatedTransactionPaths ==
    {"/accounts/a1/transactions/t1", "/accounts/a2/transactions/t1",
     "/accounts/a1/transactions/zz"}
OtherPaths == {"/", "/accounts", "/accounts/", "/accounts/a1/transactions/", "/health"}
APIPaths == AccountPaths \cup TransactionsPaths \cup TransactionPaths \cup OtherPaths

AccountBodies ==
    {NoJSON, JObject([name |-> JNumber(5), type |-> JString("bank")]),
     JObject([name |-> JString("Checking"), type |-> JNull])}
    \cup
    {JObject(o) : o \in ObjectsOver(<<"name", "type">>,
        [name |-> {JString(""), JString("Checking"), JString("Savings")},
         type |-> {JString(""), JString("bank"), JString("other"), JString("credit")}])}

TransactionBodies ==
    {NoJSON,
     JObject(<<>>),
     JObject([type |-> JString("income")]),
     JObject([type |-> JString("income"), date |-> JString("2024-01-15T10:00:00Z")]),
     JObject([type |-> JString("income"), date |-> JString("15/01/2024")]),
     JObject([type |-> JString("bank"), date |-> JString("2024-01-15T10:00:00Z")])}

Requests ==
    \* every method on every path, with no query and no body
    {Request(m, p, NoValues, NoJSON) : m \in Methods, p \in APIPaths}
    \* lists with pagination parameters
    \cup {Request(MethodGet, p, [NoValues EXCEPT !.page = pg, !.pageSize = ps], NoJSON) :
            p \in {"/accounts", "/accounts/a1/transactions"},
            pg \in {<<>>, <<"2">>, <<"0">>},
            ps \in {<<>>, <<"1">>, <<"500">>}}
    \* accounts created and updated
    \cup {Request(MethodPost, "/accounts", NoValues, b) : b \in AccountBodies}
    \cup {Request(MethodPut, p, NoValues, b) : p \in AccountPaths, b \in AccountBodies}
    \* accounts deleted with ?id=
    \cup {Request(MethodDelete, p, [NoValues EXCEPT !.id = <<i>>], NoJSON) :
            p \in {"/accounts", "/accounts/", "/accounts/a2"}, i \in {"a1", "zz"}}
    \* transactions created and updated
    \cup {Request(MethodPost, p, NoValues, b) :
            p \in TransactionsPaths \cup {"/accounts/a1/transactions/t1"},
            b \in TransactionBodies}
    \cup {Request(MethodPut, p, NoValues, b) :
            p \in UpdatedTransactionPaths, b \in TransactionBodies}

\* what the request can meet: the values of Envs its method reads
EnvsFor(r) ==
    {e \in Envs :
        /\ (r.method # MethodPost => e.uuid = "a1")
        /\ (r.method = MethodPost =>
                e.uuid \in IF r.path = "/accounts" THEN AccountUUIDs ELSE TransactionUUIDs)
        /\ (r.method # MethodGet => ~e.nilStore /\ e.tie = <<"a1", "a2">>)
        /\ (r.method # MethodPut => e.fault < 2)
        /\ e.text = PlainErrorText}

NoQuery == [page |-> <<>>, pageSize |-> <<>>]
NoPage == [page |-> "", pageSize |-> 0]
NoOut == [status |-> -1, calls |-> <<>>]
NoParse == [accountID |-> "?", transactionID |-> "?"]
NoRequest == Request("", "", NoValues, NoJSON)
NoResponse == [status |-> 0, error |-> "", body |-> [kind |-> "none"]]
NoUpdates == <<>>
NoRepositoryCall == [op |-> ""]

InitAPI ==
    /\ accounts = <<>>
    /\ transactions = <<>>
    /\ req = NoRequest
    /\ resp = NoResponse
    /\ calls = <<>>
    /\ before = [accounts |-> <<>>, transactions |-> <<>>]
    /\ entry = ""
    /\ inflight = NoUpdates
    /\ repo = NoRepositoryCall

InitIdle ==
    /\ rRoutes = <<>>
    /\ rMethod = MethodGet
    /\ rSegs = <<>>
    /\ rPath = ""
    /\ rOut = NoOut
    /\ rParsed = NoParse
    /\ pgQuery = NoQuery
    /\ pgOut = NoPage

Init == InitIdle /\ InitAPI

\* a request arrives and is served
Serve ==
    /\ req = NoRequest
    /\ \E r \in Requests : \E env \in EnvsFor(r) :
        \E out \in {ServeRegistered(r, [accounts |-> accounts,
                                         transactions |-> transactions], env)} :
            /\ accounts' = out.accounts
            /\ transactions' = out.transactions
            /\ req' = r
            /\ resp' = out.resp
            /\ calls' = out.calls
            /\ before' = [accounts |-> accounts, transactions |-> transactions]
    /\ entry' = "router"
    /\ UNCHANGED routerVars
    /\ UNCHANGED pageVars
    /\ UNCHANGED directVars

\* the response is written and the request is over
Finish ==
    /\ req # NoRequest
    /\ req' = NoRequest
    /\ resp' = NoResponse
    /\ calls' = <<>>
    /\ before' = [accounts |-> accounts, transactions |-> transactions]
    /\ entry' = ""
    /\ UNCHANGED <<accounts, transactions>>
    /\ UNCHANGED routerVars
    /\ UNCHANGED pageVars
    /\ UNCHANGED directVars

Next == Serve \/ Finish

Spec == Init /\ [][Next]_vars

-----------------------------------------------------------------------------
(* The transaction specification: one account, and transactions created,   *)
(* fetched, partially updated and deleted through the registered router    *)

\* bodies of POST /accounts/{id}/transactions that are stored: the defaults,
\* every field given (75.25, a date with a zone offset), and an amount of
\* 0.00005
CreatedTransactionBodies ==
    {JObject([type |-> JString("income"), date |-> JString("2024-01-15T10:00:00Z")]),
     JObject([amount |-> JNumber(7525000), date |-> JString("2024-01-15T12:00:00+02:00"),
              description |-> JString("lunch"), type |-> JString("income")]),
     JObject([amount |-> JNumber(5), type |-> JString("income"),
              date |-> JString("2024-01-15T10:00:00Z")])}

\* bodies of POST /accounts/{id}/transactions that are not
RejectedTransactionBodies ==
    {NoJSON,
     JObject([type |-> JNumber(1), date |-> JString("2024-01-15T10:00:00Z")]),
     JObject(<<>>),
     JObject([date |-> JString("2024-01-15T10:00:00Z")]),
     JObject([type |-> JNull, date |-> JString("2024-01-15T10:00:00Z")]),
     JObject([type |-> JString(""), date |-> JString("15/01/2024")]),
     JObject([type |-> JString("bank")]),
     JObject([type |-> JString("bank"), date |-> JString("2024-01-15T10:00:00Z")]),
     JObject([type |-> JString("transfer"), date |-> JString("15/01/2024")]),
     JObject([type |-> JString("income")]),
     JObject([type |-> JString("expense"), date |-> JString("")]),
     JObject([type |-> JString("expense"), date |-> JNull]),
     JObject([type |-> JString("income"), date |-> JString("15/01/2024")])}

\* bodies of PUT /accounts/{id}/transactions/{txId}: every subset of the four
\* fields with a valid value, a zero amount and an empty description among
\* them, and an amount of 0.00005
ValidUpdateBodies ==
    {JObject(o) : o \in ObjectsOver(<<"amount", "date", "description", "type">>,
        [amount |-> {JNumber(0)},
         date |-> {JString("2024-02-01T00:00:00Z")},
         description |-> {JString("")},
         type |-> {JString("expense")}])}
    \cup {JObject([amount |-> JNumber(5)])}

\* and bodies with a field that is null, of the wrong type or invalid, alone
\* and next to valid fields
OtherUpdateBodies ==
    {NoJSON,
     JObject([amount |-> JString("0")]),
     JObject([amount |-> JNull, description |-> JNull, type |-> JNull, date |-> JNull]),
     JObject([type |-> JString("bank")]),
     JObject([type |-> JString("")]),
     JObject([date |-> JString("15/01/2024")]),
     JObject([date |-> JString("")]),
     JObject([amount |-> JNumber(0), type |-> JString("bank")]),
     JObject([amount |-> JNumber(0), description |-> JString(""),
              date |-> JString("15/01/2024")]),
     JObject([date |-> JString("2024-02-01T00:00:00Z"), type |-> JString("bank")]),
     JObject([date |-> JString("15/01/2024"), type |-> JString("expense")])}

TransactionRequests ==
    {Request(MethodPost, "/accounts", NoValues,
             JObject([name |-> JString("Checking"), type |-> JString("bank")]))}
    \cup {Request(MethodPost, "/accounts/a1/transactions", NoValues, b) :
            b \in CreatedTransactionBodies \cup RejectedTransactionBodies}
    \cup {Request(MethodPut, p, NoValues, b) :
            p \in {"/accounts/a1/transactions/t1", "/accounts/a2/transactions/t1"},
            b \in ValidUpdateBodies \cup OtherUpdateBodies}
    \cup {Request(MethodGet, p, NoValues, NoJSON) :
            p \in {"/accounts/a1/transactions/t1", "/accounts/a1/transactions/t2"}}
    \cup {Request(MethodDelete, "/accounts/a1/transactions/t1", NoValues, NoJSON)}

\* what such a request can meet: uuid.New returns an id not in use, the
\* account gets a1, and any repository call may fail at the database
TransactionEnvs(r, db) ==
    {e \in Envs :
        /\ ~e.nilStore /\ e.tie = <<"a1", "a2">>
        /\ e.text = PlainErrorText
        /\ (r.method # MethodPut => e.fault < 2)
        /\ e.uuid = IF r.method # MethodPost \/ r.path = "/accounts" THEN "a1"
                    ELSE IF "t1" \notin DOMAIN db.transactions THEN "t1" ELSE "t2"}

\* a request arrives and is served
ServeTransaction ==
    /\ req = NoRequest
    /\ \E r \in TransactionRequests :
        \E db \in {[accounts |-> accounts, transactions |-> transactions]} :
        \E env \in TransactionEnvs(r, db) :
        \E out \in {ServeRegistered(r, db, env)} :
            /\ accounts' = out.accounts
            /\ transactions' = out.transactions
            /\ req' = r
            /\ resp' = out.resp
            /\ calls' = out.calls
            /\ before' = db
    /\ entry' = "router"
    /\ UNCHANGED routerVars
    /\ UNCHANGED pageVars
    /\ UNCHANGED directVars

NextTx == ServeTransaction \/ Finish

SpecTx == Init /\ [][NextTx]_vars

-----------------------------------------------------------------------------
(* The handler specification: the methods of AccountHandler and            *)
(* TransactionHandler called with any request, as their tests call them,   *)
(* beside the same requests handed to the router                           *)

Handlers ==
    {"ListAccounts", "CreateAccount", "UpdateAccount", "DeleteAccount",
     "ListTransactions", "CreateTransaction", "UpdateTransaction", "DeleteTransaction"}

\* h.ServeHTTP(w, r) of the handler function named
Handle(h, r, db, env) ==
    CASE h = "ListAccounts" -> ListAccounts(r, db, env)
      [] h = "CreateAccount" -> CreateAccount(r, db, env)
      [] h = "UpdateAccount" -> UpdateAccount(r, db, env)
      [] h = "DeleteAccount" -> DeleteAccount(r, db, env)
      [] h = "ListTransactions" -> ListTransactions(r, db, env)
      [] h = "CreateTransaction" -> CreateTransaction(r, db, env)
      [] h = "UpdateTransaction" -> UpdateTransaction(r, db, env)
      [] h = "DeleteTransaction" -> DeleteTransaction(r, db, env)

HandlerPaths ==
    {"/accounts", "/accounts/a1", "/accounts/a1/transactions",
     "/accounts/a1/transactions/t1", "/health"}

\* bodies: none, an account, an account of a type not allowed, a
\* transaction, and transactions of a type not allowed and of a date that
\* does not parse
HandlerBodies ==
    {NoJSON,
     JObject([name |-> JString("Checking"), type |-> JString("bank")]),
     JObject([name |-> JString("Checking"), type |-> JString("credit")]),
     JObject([type |-> JString("income"), date |-> JString("2024-01-15T10:00:00Z")]),
     JObject([type |-> JString("bank"), date |-> JString("2024-01-15T10:00:00Z")]),
     JObject([date |-> JString("15/01/2024")])}

HandlerRequests ==
    {Request(m, p, [NoValues EXCEPT !.id = i], b) :
        m \in Methods, p \in HandlerPaths, i \in {<<>>, <<"a1">>}, b \in HandlerBodies}

\* what such a request can meet: uuid.New returns a1 for an account and t1
\* for a transaction, and any repository call may fail at the database
HandlerEnvs(h) ==
    {e \in Envs :
        /\ ~e.nilStore /\ e.tie = <<"a1", "a2">>
        /\ (h # "UpdateTransaction" => e.fault < 2)
        /\ e.uuid = IF h = "CreateTransaction" THEN "t1" ELSE "a1"}

\* a handler is called with a request
Invoke ==
    /\ req = NoRequest
    /\ \E h \in Handlers : \E r \in HandlerRequests : \E env \in HandlerEnvs(h) :
        \E db \in {[accounts |-> accounts, transactions |-> transactions]} :
        \E out \in {Handle(h, r, db, env)} :
            /\ accounts' = out.accounts
            /\ transactions' = out.transactions
            /\ req' = r
            /\ resp' = out.resp
            /\ calls' = out.calls
            /\ before' = db
            /\ entry' = h
    /\ UNCHANGED routerVars
    /\ UNCHANGED pageVars
    /\ UNCHANGED directVars

\* the router is handed a request
Route ==
    /\ req = NoRequest
    /\ \E r \in HandlerRequests : \E env \in HandlerEnvs("") :
        \E db \in {[accounts |-> accounts, transactions |-> transactions]} :
        \E out \in {ServeRegistered(r, db, env)} :
            /\ accounts' = out.accounts
            /\ transactions' = out.transactions
            /\ req' = r
            /\ resp' = out.resp
            /\ calls' = out.calls
            /\ before' = db
    /\ entry' = "router"
    /\ UNCHANGED routerVars
    /\ UNCHANGED pageVars
    /\ UNCHANGED directVars

NextHandlers == Invoke \/ Route \/ Finish

SpecHandlers == Init /\ [][NextHandlers]_vars

-----------------------------------------------------------------------------
(* Requests served side by side: two updates of one transaction, each a    *)
(* GetByID and then an Update on the pool the requests share, and a delete *)
(* of the transaction or of its account that may come between              *)

Clients == {1, 2}

\* the tables once POST /accounts and POST /accounts/a1/transactions are served
RaceAccounts == "a1" :> [name |-> "Checking", type |-> "bank"]
RaceTransactions ==
    "t1" :> [account_id |-> "a1", amount |-> 1000000, date |-> 1,
             description |-> "rent", type |-> "expense"]

RacePath == "/accounts/a1/transactions/t1"

\* bodies of PUT: one field each, two fields, all four
RaceBodies ==
    {JObject([amount |-> JNumber(250000)]),
     JObject([description |-> JString("lunch")]),
     JObject([type |-> JString("income")]),
     JObject([date |-> JString("2024-02-01T00:00:00Z")]),
     JObject([amount |-> JNumber(70000), description |-> JString("bus")]),
     JObject([amount |-> JNumber(0), date |-> JString("2024-01-15T12:00:00+02:00"),
              description |-> JString(""), type |-> JString("expense")])}

\* the database is up
RaceEnv ==
    [fault |-> 0, text |-> PlainErrorText, uuid |-> "a1", nilStore |-> FALSE,
     tie |-> <<"a1", "a2">>]

\* the steps taken so far by the requests served side by side
RaceClock(f) ==
    Cardinality(DOMAIN f) + Cardinality({c \in DOMAIN f \cap Clients : f[c].wroteAt > f[c].fetchedAt})

InitRace ==
    /\ InitIdle
    /\ accounts = RaceAccounts
    /\ transactions = RaceTransactions
    /\ req = NoRequest
    /\ resp = NoResponse
    /\ calls = <<>>
    /\ before = [accounts |-> RaceAccounts, transactions |-> RaceTransactions]
    /\ entry = ""
    /\ inflight = NoUpdates
    /\ repo = NoRepositoryCall

\* UpdateTransaction of a client, up to the answer of h.Repo.GetByID
Fetch(c) ==
    /\ c \notin DOMAIN inflight
    /\ \E b \in RaceBodies :
        \E f \in {UpdateTransactionFetch(Request(MethodPut, RacePath, NoValues, b),
                        [accounts |-> accounts, transactions |-> transactions], RaceEnv)} :
            inflight' = (c :> IF f.ended
                              THEN [pc |-> "done", body |-> b, q |-> DecodeTransaction(b),
                                    existing |-> NoTransaction, calls |-> f.out.calls,
                                    resp |-> f.out.resp,
                                    fetchedAt |-> RaceClock(inflight) + 1,
                                    wroteAt |-> RaceClock(inflight) + 1]
                              ELSE [pc |-> "fetched", body |-> b, q |-> f.q,
                                    existing |-> f.existing, calls |-> f.calls,
                                    resp |-> NoResponse,
                                    fetchedAt |-> RaceClock(inflight) + 1,
                                    wroteAt |-> 0]) @@ inflight
    /\ UNCHANGED apiVars
    /\ UNCHANGED routerVars
    /\ UNCHANGED pageVars
    /\ UNCHANGED repo

\* UpdateTransaction of a client, from the transaction fetched to the
\* response: the merge, h.Repo.Update, the answer
Write(c) ==
    /\ c \in DOMAIN inflight
    /\ inflight[c].pc = "fetched"
    /\ \E out \in {UpdateTransactionWrite(inflight[c].q, inflight[c].existing,
                        inflight[c].calls,
                        [accounts |-> accounts, transactions |-> transactions], RaceEnv)} :
            /\ accounts' = out.accounts
            /\ transactions' = out.transactions
            /\ inflight' = [inflight EXCEPT ![c].pc = "done",
                                            ![c].calls = out.calls,
                                            ![c].resp = out.resp,
                                            ![c].wroteAt = RaceClock(inflight) + 1]
    /\ UNCHANGED <<req, resp, calls, before, entry>>
    /\ UNCHANGED routerVars
    /\ UNCHANGED pageVars
    /\ UNCHANGED repo

\* a DELETE of the transaction or of its account is served, once: one
\* statement at the database
DeleteServed ==
    /\ 0 \notin DOMAIN inflight
    /\ \E r \in {Request(MethodDelete, RacePath, NoValues, NoJSON),
                  Request(MethodDelete, "/accounts/a1", NoValues, NoJSON)} :
        \E out \in {ServeRegistered(r,
                        [accounts |-> accounts, transactions |-> transactions], RaceEnv)} :
            /\ accounts' = out.accounts
            /\ transactions' = out.transactions
            /\ inflight' = (0 :> [pc |-> "done", body |-> NoJSON, q |-> DecodeTransaction(NoJSON),
                                  existing |-> NoTransaction, calls |-> out.calls,
                                  resp |-> out.resp,
                                  fetchedAt |-> RaceClock(inflight) + 1,
                                  wroteAt |-> RaceClock(inflight) + 1]) @@ inflight
    /\ UNCHANGED <<req, resp, calls, before, entry>>
    /\ UNCHANGED routerVars
    /\ UNCHANGED pageVars
    /\ UNCHANGED repo

NextRace == (\E c \in Clients : Fetch(c) \/ Write(c)) \/ DeleteServed

SpecRace == InitRace /\ [][NextRace]_vars

-----------------------------------------------------------------------------
(* The repositories called by themselves, as their tests call them, with   *)
(* any identifiers, names and types, on the tables earlier calls left      *)

RepositoryOps ==
    {"AccountRepository.Create", "AccountRepository.Update", "AccountRepository.Delete",
     "TransactionRepository.GetByAccountID", "TransactionRepository.GetByID",
     "TransactionRepository.Create", "TransactionRepository.Update",
     "TransactionRepository.Delete"}

\* the arguments of a call: ids that are empty, a uuid or no uuid, names
\* and types that are empty, allowed or not, and whether the database fails
RepositoryArgs ==
    [accountID : {"", "a1", "acc-123"}, transactionID : {"", "t1"},
     name : {"", "Checking"}, type : {"", "bank", "income"},
     fails : {"", PlainErrorText}]

\* the transaction handed to Create and Update
TransactionOf(a) ==
    [kind |-> "transaction", id |-> a.transactionID, account_id |-> a.accountID,
     amount |-> 120000, date |-> RFC3339["2024-01-15T10:00:00Z"],
     description |-> "tea", type |-> a.type]

\* the method named, called with the arguments, on the tables
CallOf(op, a, db) ==
    CASE op = "AccountRepository.Create" ->
            AccountRepositoryCreate(db, [name |-> a.name, type |-> a.type], "a1", a.fails)
      [] op = "AccountRepository.Update" ->
            AccountRepositoryUpdate(db, [id |-> a.accountID, name |-> a.name,
                                         type |-> a.type], a.fails)
      [] op = "AccountRepository.Delete" -> AccountRepositoryDelete(db, a.accountID, a.fails)
      [] op = "TransactionRepository.GetByAccountID" ->
            TransactionRepositoryGetByAccountID(db, a.accountID, "1", defaultPageSize, a.fails)
      [] op = "TransactionRepository.GetByID" ->
            TransactionRepositoryGetByID(db, a.accountID, a.transactionID, a.fails)
      [] op = "TransactionRepository.Create" ->
            TransactionRepositoryCreate(db, TransactionOf(a), "t1", a.fails)
      [] op = "TransactionRepository.Update" ->
            TransactionRepositoryUpdate(db, TransactionOf(a), a.fails)
      [] op = "TransactionRepository.Delete" ->
            TransactionRepositoryDelete(db, a.accountID, a.transactionID, a.fails)

\* a method of a repository is called
CallRepository ==
    /\ repo = NoRepositoryCall
    /\ \E op \in RepositoryOps : \E a \in RepositoryArgs :
        \E db \in {[accounts |-> accounts, transactions |-> transactions]} :
        \E out \in {CallOf(op, a, db)} :
            /\ repo' = [op |-> op, args |-> a, err |-> out.err,
                        access |-> IF "access" \in DOMAIN out THEN out.access ELSE TRUE]
            /\ accounts' = IF "db" \in DOMAIN out THEN out.db.accounts ELSE accounts
            /\ transactions' = IF "db" \in DOMAIN out THEN out.db.transactions
                                                        ELSE transactions
            /\ before' = db
    /\ UNCHANGED <<req, resp, calls, entry, inflight>>
    /\ UNCHANGED routerVars
    /\ UNCHANGED pageVars

\* the method returns
Return ==
    /\ repo # NoRepositoryCall
    /\ repo' = NoRepositoryCall
    /\ before' = [accounts |-> accounts, transactions |-> transactions]
    /\ UNCHANGED <<accounts, transactions, req, resp, calls, entry, inflight>>
    /\ UNCHANGED routerVars
    /\ UNCHANGED pageVars

NextRepo == CallRepository \/ Return

SpecRepo == Init /\ [][NextRepo]_vars



-----------------------------------------------------------------------------
(* The router specification: a request against a route table *)

\* route tables generated for the router: any order, duplicates and
\* shadowed routes included
TableRoutes ==
    [method : {MethodGet, MethodPut},
     path : {"/accounts", "/accounts/:id"},
     handler : {"h"}]


InitRouter ==
    /\ \/ /\ rRoutes \in SeqsUpTo(TableRoutes, MaxRoutes)
          /\ rSegs \in SeqsUpTo({"", "accounts", "x"}, MaxTableSegs)
          /\ rMethod \in {MethodGet, MethodPut, MethodDelete}
       \/ /\ rRoutes = RegisteredRoutes
          /\ rSegs \in SeqsUpTo(PathSegments, MaxSegs)
          /\ rMethod \in Methods
    /\ rPath = JoinPath(rSegs)
    /\ rOut = NoOut
    /\ rParsed = NoParse
    /\ pgQuery = NoQuery
    /\ pgOut = NoPage
    /\ InitAPI

\* the router serves the request
ServeHTTP ==
    /\ rOut = NoOut
    /\ rOut' = newRouter(rRoutes, rMethod, rPath)
    /\ UNCHANGED <<rRoutes, rMethod, rSegs, rPath, rParsed>>
    /\ UNCHANGED pageVars
    /\ UNCHANGED directVars
    /\ UNCHANGED apiVars

\* the transaction handler parses the request path
ParsePath ==
    /\ rParsed = NoParse
    /\ rParsed' = accountIDAndTransactionIDFromPath(rPath)
    /\ UNCHANGED <<rRoutes, rMethod, rSegs, rPath, rOut>>
    /\ UNCHANGED pageVars
    /\ UNCHANGED directVars
    /\ UNCHANGED apiVars

NextRouter == ServeHTTP \/ ParsePath

SpecRouter == InitRouter /\ [][NextRouter]_vars

-----------------------------------------------------------------------------
(* Claims about the router and the path parsing (SpecRouter) *)

\* the routes of the table whose pattern matches the request path
MatchingRoutes == {i \in 1..Len(rRoutes) : pathMatches(rRoutes[i].path, rPath)}
\* those of them registered for the request method
ServingRoutes == {i \in MatchingRoutes : rRoutes[i].method = rMethod}
FirstOf(S) == CHOOSE i \in S : \A j \in S : i <= j

\* C1: for every request and route table the router answers 404 exactly when
\* no pattern matches the path, 405 exactly when a pattern matches the path
\* but no route with a matching path has the method, and otherwise invokes
\* exactly one handler, that of the first route in registration order whose
\* path and method both match.
C1_RouterResolution ==
    rOut # NoOut =>
        /\ (rOut.status = 404) <=> (MatchingRoutes = {})
        /\ (rOut.status = 405) <=> (MatchingRoutes # {} /\ ServingRoutes = {})
        /\ ServingRoutes # {} =>
                rOut.status = 0 /\ rOut.calls = <<FirstOf(ServingRoutes)>>
        /\ ServingRoutes = {} => rOut.calls = <<>>

\* C1 witness: a dispatch to a route that is not the first of the table, past
\* an earlier route that matched the path with another method, with a later
\* route that would serve the request too
C1_Witness ==
    /\ rOut.status = 0
    /\ Len(rOut.calls) = 1
    /\ \E j \in MatchingRoutes : j < rOut.calls[1]
    /\ \E k \in ServingRoutes : k > rOut.calls[1]

\* the path shapes, on the segments the path was built from (a segment holds
\* no slash)
ShapeAccount(segs) ==
    Len(segs) = 2 /\ segs[1] = "accounts" /\ segs[2] # ""
ShapeTransactions(segs) ==
    /\ Len(segs) = 3 /\ segs[1] = "accounts" /\ segs[2] # ""
    /\ segs[3] = "transactions"
ShapeTransaction(segs) ==
    /\ Len(segs) = 4 /\ segs[1] = "accounts" /\ segs[2] # ""
    /\ segs[3] = "transactions" /\ segs[4] # ""

\* C2: /accounts/{id} matches exactly /accounts/<s>, /accounts/{id}/transactions
\* exactly /accounts/<s>/transactions and /accounts/{id}/transactions/{txId}
\* exactly /accounts/<s>/transactions/<t>, s and t non-empty and slash-free; a
\* path of none of the registered shapes (empty placeholder, trailing slash,
\* wrong literal, extra segment) is answered 404 by the registered router.
C2_PathMatching ==
    /\ pathMatches("/accounts/:id", rPath) <=> ShapeAccount(rSegs)
    /\ pathMatches("/accounts/:id/transactions", rPath) <=> ShapeTransactions(rSegs)
    /\ pathMatches("/accounts/:id/transactions/:txId", rPath) <=> ShapeTransaction(rSegs)
    /\ ( /\ rRoutes = RegisteredRoutes
         /\ rOut # NoOut
         /\ rSegs \notin {<<"">>, <<"accounts">>}
         /\ ~ShapeAccount(rSegs)
         /\ ~ShapeTransactions(rSegs)
         /\ ~ShapeTransaction(rSegs) ) => rOut.status = 404

\* C2 witness: the registered router has answered 404 to a transaction path
\* with a segment after the txId
C2_Witness ==
    /\ rRoutes = RegisteredRoutes
    /\ rOut.status = 404
    /\ Len(rSegs) = 5
    /\ ShapeTransaction(SubSeq(rSegs, 1, 4))
    /\ rSegs[5] # ""

\* a path that starts /accounts/<s>/transactions
TransactionsPrefix(segs) ==
    /\ Len(segs) >= 3 /\ segs[1] = "accounts" /\ segs[2] # ""
    /\ segs[3] = "transactions"

NoMatch == [accountID |-> "", transactionID |-> ""]

\* C10 as stated: the parsing gives (s, t) for /accounts/s/transactions/t,
\* (s, none) for /accounts/s/transactions and no match for every other path,
\* a trailing slash after 'transactions' and extra segments after the txId
\* included.
C10_AsStated ==
    rParsed # NoParse =>
        rParsed = IF ShapeTransaction(rSegs)
                  THEN [accountID |-> rSegs[2], transactionID |-> rSegs[4]]
                  ELSE IF ShapeTransactions(rSegs)
                  THEN [accountID |-> rSegs[2], transactionID |-> ""]
                  ELSE NoMatch

\* C10 amended: the parsing gives (s, t) for /accounts/s/transactions/t;
\* (s, none) for /accounts/s/transactions and also for every longer path
\* that starts /accounts/s/transactions/ and is not of the first shape (a
\* trailing slash, segments after the txId); no match for every other path
\* (a missing accountId, a wrong literal segment).
C10_PathParsing ==
    rParsed # NoParse =>
        rParsed = IF ShapeTransaction(rSegs)
                  THEN [accountID |-> rSegs[2], transactionID |-> rSegs[4]]
                  ELSE IF TransactionsPrefix(rSegs)
                  THEN [accountID |-> rSegs[2], transactionID |-> ""]
                  ELSE NoMatch

\* C10 witness: /accounts/s/transactions/t/u has been parsed
C10_Witness ==
    /\ rParsed # NoParse
    /\ Len(rSegs) = 5
    /\ ShapeTransaction(SubSeq(rSegs, 1, 4))
    /\ rSegs[5] # ""
    /\ rParsed.accountID = rSegs[2]

-----------------------------------------------------------------------------
(* The pagination specification: ParsePagination on a query *)

ParamChars == {"0", "1", "9", "-", "a"}

\* every string of at most n of the characters
RECURSIVE StringsUpTo(_)
StringsUpTo(n) ==
    IF n = 0 THEN {""}
    ELSE LET shorter == StringsUpTo(n - 1)
         IN  shorter \cup {s \o c : s \in shorter, c \in ParamChars}

\* values around the limits of the int, and signed and padded numerals
LongParams ==
    {"+7", "007", "0500", "+", "1a", "2147483648",
     "9223372036854775807", "9223372036854775808", "99999999999999999999",
     "-9223372036854775808", "-9223372036854775809"}

ParamValues == StringsUpTo(MaxParamLen) \cup LongParams

\* the values of a key: none (the key is absent), one, or two
ParamLists(S) == {<<>>} \cup {<<s>> : s \in S} \cup {<<s, "2">> : s \in {"", "a", "5"}}

FewParams == {"", "3", "a", "101"}

InitPage ==
    /\ \/ /\ pgQuery \in [page : ParamLists(ParamValues), pageSize : ParamLists(FewParams)]
       \/ /\ pgQuery \in [page : ParamLists(FewParams), pageSize : ParamLists(ParamValues)]
    /\ pgOut = NoPage
    /\ rRoutes = <<>>
    /\ rMethod = MethodGet
    /\ rSegs = <<>>
    /\ rPath = ""
    /\ rOut = NoOut
    /\ rParsed = NoParse
    /\ InitAPI

\* a list handler parses the pagination of the request
Paginate ==
    /\ pgOut = NoPage
    /\ pgOut' = ParsePagination(pgQuery)
    /\ UNCHANGED <<pgQuery>>
    /\ UNCHANGED routerVars
    /\ UNCHANGED apiVars
    /\ UNCHANGED directVars

NextPage == Paginate

SpecPage == InitPage /\ [][NextPage]_vars

-----------------------------------------------------------------------------
(* Claims about pagination (SpecPage) *)

\* the supplied value of a parameter, in the terms of the claim: a numeral is
\* an optional sign followed by decimal digits
Supplied(query, key) == IF query[key] = <<>> THEN "" ELSE query[key][1]
Unsigned(s) ==
    IF s # "" /\ SubSeq(s, 1, 1) \in {"+", "-"} THEN SubSeq(s, 2, Len(s)) ELSE s
IsNumeral(s) ==
    /\ Unsigned(s) # ""
    /\ \A i \in 1..Len(Unsigned(s)) :
            SubSeq(Unsigned(s), i, i) \in {"0", "1", "2", "3", "4", "5", "6", "7", "8", "9"}
\* the numeral's value is at least 1: it is not negative and has a digit
\* other than 0
NumeralAtLeastOne(s) ==
    /\ SubSeq(s, 1, 1) # "-"
    /\ \E i \in 1..Len(Unsigned(s)) : SubSeq(Unsigned(s), i, i) # "0"
\* the digits of a numeral that is at least 1, from its first digit other
\* than 0
Significant(s) ==
    LET u == Unsigned(s)
        first == CHOOSE i \in 1..Len(u) :
                    /\ SubSeq(u, i, i) # "0"
                    /\ \A j \in 1..(i - 1) : SubSeq(u, j, j) = "0"
    IN  SubSeq(u, first, Len(u))
\* the value of a numeral that is at least 1 is greater than 100
NumeralAbove100(s) ==
    LET d == Significant(s)
    IN  Len(d) > 3 \/ (Len(d) = 3 /\ d # "100")
\* the decimal writing of a natural number
DigitChars == <<"0", "1", "2", "3", "4", "5", "6", "7", "8", "9">>
RECURSIVE Decimal(_)
Decimal(n) ==
    IF n < 10 THEN DigitChars[n + 1]
    ELSE Decimal(n \div 10) \o DigitChars[(n % 10) + 1]
\* the value of a numeral between 1 and 100
SmallValue(s) == CHOOSE n \in 1..100 : Decimal(n) = Significant(s)
\* the numeral's value fits the 64-bit int
FitsInt(s) ==
    LET d == TrimZeros(Unsigned(s))
    IN  \/ Len(d) < 19
        \/ Len(d) = 19 /\ ~DecLess(IF SubSeq(s, 1, 1) = "-" THEN MinInt64Abs ELSE MaxInt64, d)

\* C3: for every query the effective page is 1 when page is absent,
\* non-numeric or less than 1 and the supplied value otherwise; the effective
\* pageSize is 20 when pageSize is absent, non-numeric or less than 1, 100 for
\* every supplied pageSize greater than 100 and the supplied value otherwise;
\* page >= 1 and 1 <= pageSize <= 100 always.
C3_AsStated ==
    pgOut # NoPage =>
        LET p == Supplied(pgQuery, "page")
            ps == Supplied(pgQuery, "pageSize")
        IN  /\ pgOut.page =
                    IF ~IsNumeral(p) \/ ~NumeralAtLeastOne(p) THEN "1"
                    ELSE Significant(p)
            /\ pgOut.pageSize =
                    IF ~IsNumeral(ps) \/ ~NumeralAtLeastOne(ps) THEN 20
                    ELSE IF NumeralAbove100(ps) THEN 100
                    ELSE SmallValue(ps)
            /\ pgOut.page # "0" /\ IsDigits(pgOut.page)
            /\ pgOut.pageSize \in 1..100

\* What holds of the code instead: a numeral whose value does not fit the int
\* is treated like a non-numeric value (page 1, pageSize 20, never 100).
PaginationWithinInt ==
    pgOut # NoPage =>
        LET p == Supplied(pgQuery, "page")
            ps == Supplied(pgQuery, "pageSize")
        IN  /\ pgOut.page =
                    IF ~IsNumeral(p) \/ ~FitsInt(p) \/ ~NumeralAtLeastOne(p) THEN "1"
                    ELSE Significant(p)
            /\ pgOut.pageSize =
                    IF ~IsNumeral(ps) \/ ~FitsInt(ps) \/ ~NumeralAtLeastOne(ps) THEN 20
                    ELSE IF NumeralAbove100(ps) THEN 100
                    ELSE SmallValue(ps)
            /\ pgOut.page # "0" /\ IsDigits(pgOut.page)
            /\ pgOut.pageSize \in 1..100

-----------------------------------------------------------------------------
(* Claims about the API, under Spec. They are read in a state where a     *)
(* request is in flight: req is the request, resp the response, calls the *)
(* repository calls made, before the tables as the request found them.    *)

ListCalls == {"AccountStore.GetAll", "TransactionStore.GetByAccountID"}

\* the request is a list that the store served without an error
ListServed == Len(calls) = 1 /\ calls[1].op \in ListCalls /\ calls[1].err = ""

IsCreateAccount(q) == q.method = MethodPost /\ q.path = "/accounts"

\* the body is no JSON value, or holds a name or a type that is no string
NotJSON(b) ==
    \/ ~b.ok
    \/ \E k \in DOMAIN b.obj \cap {"name", "type"} : b.obj[k].t \notin {"string", "null"}

\* the string submitted for a key: "" when the key is missing, null or empty
Submitted(b, k) ==
    IF k \in DOMAIN b.obj /\ b.obj[k].t = "string" THEN b.obj[k].s ELSE ""

NothingStored ==
    /\ calls = <<>>
    /\ accounts = before.accounts
    /\ transactions = before.transactions

Rejected(text) ==
    resp.status = StatusBadRequest /\ resp.error = text /\ NothingStored

ValidCreateAccount ==
    /\ IsCreateAccount(req)
    /\ ~NotJSON(req.body)
    /\ Submitted(req.body, "name") # ""
    /\ Submitted(req.body, "type") \in {"bank", "cash", "other"}

\* C6: a valid POST /accounts calls AccountStore.Create once. When the store
\* accepts the insert the response is 201 with the submitted name and type
\* and an id that is non-empty and the id of no account stored before;
\* exactly that account is added and every other account and every
\* transaction is as before. (When the insert fails the response is 500
\* and nothing is stored.)
C6_CreateAccount ==
    ValidCreateAccount =>
        /\ Len(calls) = 1
        /\ calls[1].op = "AccountStore.Create"
        /\ calls[1].err # "" =>
                /\ resp.status = StatusInternalServerError
                /\ accounts = before.accounts
                /\ transactions = before.transactions
        /\ calls[1].err = "" =>
                /\ resp.status = StatusCreated
                /\ resp.body.kind = "account"
                /\ resp.body.name = Submitted(req.body, "name")
                /\ resp.body.type = Submitted(req.body, "type")
                /\ resp.body.id # ""
                /\ resp.body.id \notin DOMAIN before.accounts
                /\ DOMAIN accounts = DOMAIN before.accounts \cup {resp.body.id}
                /\ accounts[resp.body.id] =
                        [name |-> resp.body.name, type |-> resp.body.type]
                /\ \A i \in DOMAIN before.accounts : accounts[i] = before.accounts[i]
                /\ transactions = before.transactions

\* a second account created beside one that holds a transaction
C6_Witness ==
    /\ ValidCreateAccount
    /\ resp.status = StatusCreated
    /\ Cardinality(DOMAIN before.accounts) = 1
    /\ Cardinality(DOMAIN accounts) = 2
    /\ DOMAIN transactions # {}

\* C7 as stated: an update or a delete that addresses an id that does not
\* exist is reported by the store with an error, for accounts (PUT and
\* DELETE /accounts/{id}) and for transactions (the Update and Delete calls
\* of PUT and DELETE /accounts/{id}/transactions/{txId}); it is never
\* reported as a success.
C7_AsStated ==
    /\ \A k \in 1..Len(calls) :
        (/\ calls[k].op \in {"AccountStore.Update", "AccountStore.Delete"}
         /\ accountIDFromPath(req.path) \notin DOMAIN before.accounts)
            => calls[k].err # "" /\ resp.status # StatusOK
    /\ \A k \in 1..Len(calls) :
        (/\ calls[k].op \in {"TransactionStore.Update", "TransactionStore.Delete"}
         /\ LET ids == accountIDAndTransactionIDFromPath(req.path)
            IN  ~(/\ ids.transactionID \in DOMAIN before.transactions
                  /\ before.transactions[ids.transactionID].account_id = ids.accountID))
            => calls[k].err # "" /\ resp.status # StatusOK

\* C8 as stated: through the registered router, a DELETE whose path holds no
\* account id and whose query holds id=x, x a stored account, deletes x and
\* is answered 200; with no id in the query either it is answered with a
\* client error and deletes nothing.
C8_AsStated ==
    (req.method = MethodDelete /\ req.path \in {"/accounts", "/accounts/"}) =>
        IF req.query.id # <<>>
        THEN req.query.id[1] \in DOMAIN before.accounts =>
                resp.status = StatusOK /\ req.query.id[1] \notin DOMAIN accounts
        ELSE /\ resp.status \in 400..499
             /\ accounts = before.accounts
             /\ transactions = before.transactions

\* C9: in every reachable state the account_id of every stored transaction
\* is the id of a stored account. (A request changes the tables in one
\* step, so a delete of an account that left one of its transactions
\* behind would break this in the state it leads to.)
C9_ReferentialIntegrity ==
    \A t \in DOMAIN transactions : transactions[t].account_id \in DOMAIN accounts

\* an account that held a transaction is deleted, the transaction of
\* another account stays
C9_Witness ==
    /\ req.method = MethodDelete
    /\ req.path = "/accounts/a1"
    /\ resp.status = StatusOK
    /\ \E t \in DOMAIN before.transactions : before.transactions[t].account_id = "a1"
    /\ \A t \in DOMAIN transactions : transactions[t].account_id # "a1"
    /\ \E t \in DOMAIN transactions : transactions[t].account_id = "a2"
    /\ "a1" \notin DOMAIN accounts

-----------------------------------------------------------------------------
(* Claims about single transactions, under Spec *)

\* the ids the path of the request names
Addressed == accountIDAndTransactionIDFromPath(req.path)

\* the request is one for a single transaction: its path names both ids
SingleTransaction(methods) ==
    /\ req.method \in methods
    /\ Addressed.accountID # ""
    /\ Addressed.transactionID # ""

\* a transaction with the id named is owned by the account named
Owned(db) ==
    /\ Addressed.transactionID \in DOMAIN db.transactions
    /\ db.transactions[Addressed.transactionID].account_id = Addressed.accountID

\* an error a repository wraps around the error of the database
DatabaseError(err) ==
    /\ Len(err) >= Len("database error")
    /\ SubSeq(err, Len(err) - Len("database error") + 1, Len(err)) = "database error"

\* a repository call of the request failed at the database
DatabaseFailed == \E i \in DOMAIN calls : DatabaseError(calls[i].err)

\* the database failed though both ids named are uuids
TransactionOutage ==
    IsUUID(Addressed.accountID) /\ IsUUID(Addressed.transactionID) /\ DatabaseFailed

\* C11, as stated: a get, update (with a body that decodes) or delete of
\* (accountId, txId), when no transaction txId is owned by accountId and the
\* database is up, responds not found and leaves the transactions unchanged.
\* Violated: a txId that is no uuid fails the cast $2::uuid, and the response
\* is the server error of the failed call.
C11_AsStated ==
    (/\ SingleTransaction({MethodGet, MethodPut, MethodDelete})
     /\ (req.method = MethodPut => ~DecodeTransaction(req.body).err)
     /\ ~Owned(before)
     /\ ~TransactionOutage)
    => /\ resp = NotFoundResponse
       /\ transactions = before.transactions

\* what holds instead: with ids that are uuids, the transaction of another
\* account included, the response is not found and nothing changes
NotFoundForUUIDs ==
    (/\ SingleTransaction({MethodGet, MethodPut, MethodDelete})
     /\ (req.method = MethodPut => ~DecodeTransaction(req.body).err)
     /\ IsUUID(Addressed.accountID) /\ IsUUID(Addressed.transactionID)
     /\ ~Owned(before)
     /\ ~DatabaseFailed)
    => /\ resp = NotFoundResponse
       /\ transactions = before.transactions

\* the case of another account's transaction: an update that finds none
OtherAccountsTransaction ==
    /\ SingleTransaction({MethodPut})
    /\ Addressed.transactionID \in DOMAIN before.transactions
    /\ ~Owned(before)
    /\ resp = NotFoundResponse

-----------------------------------------------------------------------------
(* Claims about transactions created and updated, under SpecTx *)

IsCreateTransaction ==
    /\ req.method = MethodPost
    /\ Addressed.accountID # ""
    /\ Addressed.transactionID = ""

\* the body is no JSON value, or holds a field of the wrong JSON type
NotTransactionJSON(b) ==
    \/ ~b.ok
    \/ \E k \in DOMAIN b.obj \cap {"date", "description", "type"} :
            b.obj[k].t \notin {"string", "null"}
    \/ "amount" \in DOMAIN b.obj /\ b.obj["amount"].t \notin {"number", "null"}

\* C12: POST /accounts/{id}/transactions is rejected with 400, without a
\* call to the store and with both tables unchanged, when the body is not
\* valid JSON ("invalid JSON"); else when type is missing or empty ("type is
\* required"); else when type is neither income nor expense; else when date
\* is missing or empty ("date is required"); else when date is no RFC3339
\* timestamp ("invalid date (use RFC3339)"). No other body is rejected so.
C12_CreateTransactionValidation ==
    IsCreateTransaction =>
        LET type == Submitted(req.body, "type")
            date == Submitted(req.body, "date")
        IN  IF NotTransactionJSON(req.body) THEN Rejected("invalid JSON")
            ELSE IF type = "" THEN Rejected("type is required")
            ELSE IF type \notin {"income", "expense"}
            THEN Rejected("type must be one of: income, expense")
            ELSE IF date = "" THEN Rejected("date is required")
            ELSE IF date \notin DOMAIN RFC3339 THEN Rejected("invalid date (use RFC3339)")
            ELSE resp.status # StatusBadRequest

\* a body with a type that is not allowed and a date that does not parse:
\* the type is what the response complains about
C12_Witness ==
    /\ IsCreateTransaction
    /\ Submitted(req.body, "type") = "transfer"
    /\ Submitted(req.body, "date") = "15/01/2024"
    /\ Rejected("type must be one of: income, expense")

\* the number submitted for a key: 0 when the key is missing or null
SubmittedNumber(b, k) ==
    IF k \in DOMAIN b.obj /\ b.obj[k].t = "number" THEN b.obj[k].n ELSE 0

\* the response to GET /accounts/{accountId}/transactions/{id} on the tables
\* as they are now, the database being up
Fetched(accountID, id) ==
    ServeRegistered(
        Request(MethodGet, "/accounts/" \o accountID \o "/transactions/" \o id,
                NoValues, NoJSON),
        [accounts |-> accounts, transactions |-> transactions],
        [fault |-> 0, text |-> PlainErrorText, uuid |-> "a1", nilStore |-> FALSE, tie |-> <<"a1", "a2">>]).resp

TransactionCreated == IsCreateTransaction /\ resp.status = StatusCreated

\* the resource fetched has the id assigned, the account of the create path
\* and the date (as an instant), description and type submitted
FetchedAsSubmitted(got) ==
    /\ got.status = StatusOK
    /\ got.body.kind = "transaction"
    /\ got.body.id = resp.body.id
    /\ got.body.account_id = Addressed.accountID
    /\ got.body.date.unix = RFC3339[Submitted(req.body, "date")].unix
    /\ got.body.description = Submitted(req.body, "description")
    /\ got.body.type = Submitted(req.body, "type")

\* C14, as stated: once a transaction is created, fetching the id returned
\* under the account of the create path answers 200 with that id, that
\* account, and the amount, date, description and type submitted, the amount
\* 0 and the description empty when omitted.
\* Violated: the column amount keeps four decimals, so an amount of 0.00005
\* is created as 0.00005 and fetched as 0.0001.
C14_AsStated ==
    TransactionCreated =>
        /\ FetchedAsSubmitted(Fetched(Addressed.accountID, resp.body.id))
        /\ Fetched(Addressed.accountID, resp.body.id).body.amount =
                SubmittedNumber(req.body, "amount")

\* what holds instead: the amount fetched is the amount submitted rounded to
\* four decimals, and everything else is as submitted
RoundTripToFourDecimals ==
    TransactionCreated =>
        /\ FetchedAsSubmitted(Fetched(Addressed.accountID, resp.body.id))
        /\ Fetched(Addressed.accountID, resp.body.id).body.amount =
                Numeric184(SubmittedNumber(req.body, "amount"))

\* a transaction created from a body with every field, and one from a body
\* with neither amount nor description
CreatedInFull ==
    /\ TransactionCreated
    /\ DOMAIN req.body.obj = {"amount", "date", "description", "type"}
    /\ Fetched(Addressed.accountID, resp.body.id).body.amount = 7525000

\* the body gives the field: the key is there and its value is not null
Given(b, k) == k \in DOMAIN b.obj /\ b.obj[k].t # "null"

\* an update of a stored transaction by a body whose given fields are valid
ValidUpdate ==
    /\ SingleTransaction({MethodPut})
    /\ ~NotTransactionJSON(req.body)
    /\ Given(req.body, "type") => Submitted(req.body, "type") \in {"income", "expense"}
    /\ Given(req.body, "date") => Submitted(req.body, "date") \in DOMAIN RFC3339
    /\ Owned(before)

\* the row with the fields the body gives put in place of its own, as the
\* columns hold them
Replaced(old, b) ==
    [account_id |-> old.account_id,
     amount |-> IF Given(b, "amount")
                THEN Numeric184(SubmittedNumber(b, "amount")) ELSE old.amount,
     date |-> IF Given(b, "date") THEN RFC3339[Submitted(b, "date")].unix ELSE old.date,
     description |-> IF Given(b, "description")
                     THEN Submitted(b, "description") ELSE old.description,
     type |-> IF Given(b, "type") THEN Submitted(b, "type") ELSE old.type]

\* C15: a PUT on a stored transaction whose body gives any subset of amount,
\* date, description and type, each valid (a zero amount and an empty
\* description are given fields), answers 200, the database being up, and
\* leaves the row of that id with exactly the given fields replaced, the
\* other fields and the owning account as they were, under the same id;
\* every other transaction and every account is unchanged.
C15_PartialUpdate ==
    (ValidUpdate /\ ~DatabaseFailed) =>
        /\ resp.status = StatusOK
        /\ DOMAIN transactions = DOMAIN before.transactions
        /\ transactions[Addressed.transactionID] =
                Replaced(before.transactions[Addressed.transactionID], req.body)
        /\ \A t \in DOMAIN before.transactions \ {Addressed.transactionID} :
                transactions[t] = before.transactions[t]
        /\ accounts = before.accounts

\* beside another transaction, a transaction of 75.25 for "lunch" is updated
\* with an amount of zero alone: the amount is zero and the rest is as it was
C15_Witness ==
    /\ ValidUpdate
    /\ DOMAIN req.body.obj = {"amount"}
    /\ before.transactions[Addressed.transactionID].amount = 7525000
    /\ before.transactions[Addressed.transactionID].description = "lunch"
    /\ Cardinality(DOMAIN before.transactions) = 2
    /\ transactions[Addressed.transactionID].amount = 0
    /\ transactions[Addressed.transactionID].description = "lunch"

\* an update of a stored transaction by a body that decodes and gives a type
\* that is not allowed or a date that is no RFC3339 timestamp
InvalidUpdate ==
    /\ SingleTransaction({MethodPut})
    /\ ~NotTransactionJSON(req.body)
    /\ \/ Given(req.body, "type") /\ Submitted(req.body, "type") \notin {"income", "expense"}
       \/ Given(req.body, "date") /\ Submitted(req.body, "date") \notin DOMAIN RFC3339
    /\ Owned(before)

\* C16: a PUT on a stored transaction whose body gives an invalid type or an
\* unparsable date, alone or next to valid fields, is answered 400, the
\* lookup having succeeded; the only repository call is the lookup, and both
\* tables are as they were, the valid fields of the body not applied.
C16_InvalidUpdate ==
    (InvalidUpdate /\ ~DatabaseFailed) =>
        /\ resp.status = StatusBadRequest
        /\ \A i \in DOMAIN calls : calls[i].op = "TransactionStore.GetByID"
        /\ transactions = before.transactions
        /\ accounts = before.accounts

\* a transaction of 75.25 for "lunch" updated with a zero amount, an empty
\* description and a date that does not parse: rejected, and still 75.25
C16_Witness ==
    /\ InvalidUpdate
    /\ DOMAIN req.body.obj = {"amount", "description", "date"}
    /\ before.transactions[Addressed.transactionID].amount = 7525000
    /\ resp.status = StatusBadRequest
    /\ resp.error = "invalid date (use RFC3339)"
    /\ transactions[Addressed.transactionID].amount = 7525000
    /\ transactions[Addressed.transactionID].description = "lunch"

-----------------------------------------------------------------------------
(* Claims about transactions deleted and accounts updated, under Spec *)

\* the delete of a stored transaction, the database being up: 200, that row
\* gone and nothing else changed, and a fetch of the id then finds nothing
DeletedExactly ==
    (SingleTransaction({MethodDelete}) /\ Owned(before) /\ ~DatabaseFailed) =>
        /\ resp = JSONResponse(StatusOK, Message("transaction deleted"))
        /\ DOMAIN transactions = DOMAIN before.transactions \ {Addressed.transactionID}
        /\ \A t \in DOMAIN transactions : transactions[t] = before.transactions[t]
        /\ accounts = before.accounts
        /\ Fetched(Addressed.accountID, Addressed.transactionID) = NotFoundResponse

\* C18, as stated: DELETE /accounts/{accountId}/transactions/{txId} of a
\* transaction that is not stored under the account answers not found and
\* changes nothing; of a stored one it answers 200, removes that row alone,
\* and the id is not found afterwards (the database being up).
\* Violated: a txId that is no uuid fails the cast $2::uuid, and the answer
\* is 500 "failed to delete transaction".
C18_AsStated ==
    /\ (SingleTransaction({MethodDelete}) /\ ~Owned(before) /\ ~TransactionOutage) =>
            /\ resp = NotFoundResponse
            /\ transactions = before.transactions
            /\ accounts = before.accounts
    /\ DeletedExactly

\* what holds instead: the same with ids that are uuids
DeleteOfUUIDs ==
    /\ (/\ SingleTransaction({MethodDelete})
        /\ IsUUID(Addressed.accountID) /\ IsUUID(Addressed.transactionID)
        /\ ~Owned(before)
        /\ ~DatabaseFailed) =>
            /\ resp = NotFoundResponse
            /\ transactions = before.transactions
            /\ accounts = before.accounts
    /\ DeletedExactly

\* one of two transactions deleted
DeletedOneOfTwo ==
    /\ SingleTransaction({MethodDelete})
    /\ Owned(before)
    /\ Cardinality(DOMAIN before.transactions) = 2
    /\ Cardinality(DOMAIN transactions) = 1
    /\ resp.status = StatusOK

\* a PUT /accounts/{id} with a body that passes validation
ValidUpdateAccount ==
    /\ req.method = MethodPut
    /\ accountIDFromPath(req.path) # ""
    /\ ~NotJSON(req.body)
    /\ Submitted(req.body, "name") # ""
    /\ Submitted(req.body, "type") \in {"bank", "cash", "other"}

\* C19: a valid PUT /accounts/{id} never adds or removes an account and
\* changes no other account and no transaction; when the account is stored
\* and the database is up, the answer is 200 with the id, name and type, and
\* the account's row holds the name and the type submitted.
C19_UpdateAccount ==
    ValidUpdateAccount =>
        /\ DOMAIN accounts = DOMAIN before.accounts
        /\ \A i \in DOMAIN accounts \ {accountIDFromPath(req.path)} :
                accounts[i] = before.accounts[i]
        /\ transactions = before.transactions
        /\ (accountIDFromPath(req.path) \in DOMAIN before.accounts /\ ~DatabaseFailed) =>
                /\ resp = JSONResponse(StatusOK,
                            AccountResource(accountIDFromPath(req.path),
                                            Submitted(req.body, "name"),
                                            Submitted(req.body, "type")))
                /\ accounts[accountIDFromPath(req.path)] =
                        [name |-> Submitted(req.body, "name"),
                         type |-> Submitted(req.body, "type")]

\* one of two accounts, with a transaction stored, gets another name and
\* another type
C19_Witness ==
    /\ ValidUpdateAccount
    /\ Cardinality(DOMAIN before.accounts) = 2
    /\ before.transactions # <<>>
    /\ accountIDFromPath(req.path) \in DOMAIN before.accounts
    /\ before.accounts[accountIDFromPath(req.path)] = [name |-> "Checking", type |-> "bank"]
    /\ accounts[accountIDFromPath(req.path)] = [name |-> "Savings", type |-> "other"]
    /\ resp.status = StatusOK

-----------------------------------------------------------------------------
(* Claims about the handlers called with any request, under SpecHandlers *)

\* a POST whose path names a transaction
CreateOnTransactionPath ==
    /\ req.method = MethodPost
    /\ Addressed.accountID # ""
    /\ Addressed.transactionID # ""

\* C13, as stated: a POST to /accounts/{id}/transactions/{txId} is answered
\* 400 "invalid path for create transaction" and stores nothing.
\* Violated: the router has no POST route for that path and answers 405
\* "method not allowed" itself; CreateTransaction is not called.
C13_AsStated ==
    (CreateOnTransactionPath /\ entry \in {"router", "CreateTransaction"}) =>
        Rejected("invalid path for create transaction")

\* C13: CreateTransaction, called with a POST whose path names a
\* transaction, answers 400 "invalid path for create transaction" without a
\* call to the store and with both tables unchanged, whatever the body is;
\* the router, handed such a POST, answers 405 "method not allowed", again
\* without a call to the store.
C13_CreateOnTransactionPath ==
    CreateOnTransactionPath =>
        /\ entry = "CreateTransaction" => Rejected("invalid path for create transaction")
        /\ entry = "router" =>
                /\ resp = ErrorResponse(StatusMethodNotAllowed, "method not allowed")
                /\ NothingStored

\* CreateTransaction called with a body that would be stored, on the path of
\* a transaction of a stored account
C13_Witness ==
    /\ CreateOnTransactionPath
    /\ entry = "CreateTransaction"
    /\ Addressed.accountID \in DOMAIN before.accounts
    /\ Submitted(req.body, "type") = "income"
    /\ Submitted(req.body, "date") \in DOMAIN RFC3339
    /\ Rejected("invalid path for create transaction")

\* the HTTP verb of each operation
OwnMethod ==
    [h \in Handlers |->
        CASE h \in {"ListAccounts", "ListTransactions"} -> MethodGet
          [] h \in {"CreateAccount", "CreateTransaction"} -> MethodPost
          [] h \in {"UpdateAccount", "UpdateTransaction"} -> MethodPut
          [] h \in {"DeleteAccount", "DeleteTransaction"} -> MethodDelete]

\* C20: each of the eight handlers, called with a verb other than its own,
\* answers 405 "method not allowed" whatever the path, the query and the
\* body are, without a call to a store and with both tables unchanged.
C20_MethodNotAllowed ==
    (entry \in Handlers /\ req.method # OwnMethod[entry]) =>
        /\ resp = ErrorResponse(StatusMethodNotAllowed, "method not allowed")
        /\ NothingStored

\* DeleteAccount called with a POST that names a stored account in its path
\* and in its query
C20_Witness ==
    /\ entry = "DeleteAccount"
    /\ req.method = MethodPost
    /\ accountIDFromPath(req.path) \in DOMAIN before.accounts
    /\ QueryGet(req.query, "id") \in DOMAIN before.accounts
    /\ resp.status = StatusMethodNotAllowed
    /\ accounts = before.accounts

\* the path is /accounts/{id}: one segment, not empty, after the prefix
NamesAccount ==
    /\ HasPrefix(req.path, "/accounts/")
    /\ TrimPrefix(req.path, "/accounts/") # ""
    /\ Len(SplitN(TrimPrefix(req.path, "/accounts/"), "/", 2)) = 1

InvalidAccountBody ==
    \/ NotJSON(req.body)
    \/ Submitted(req.body, "name") = ""
    \/ Submitted(req.body, "type") \notin {"bank", "cash", "other"}

InvalidCreateBody ==
    \/ NotTransactionJSON(req.body)
    \/ Submitted(req.body, "type") \notin {"income", "expense"}
    \/ Submitted(req.body, "date") \notin DOMAIN RFC3339

InvalidUpdateBody ==
    \/ NotTransactionJSON(req.body)
    \/ Given(req.body, "type") /\ Submitted(req.body, "type") \notin {"income", "expense"}
    \/ Given(req.body, "date") /\ Submitted(req.body, "date") \notin DOMAIN RFC3339

\* a handler is called with its own verb and an input it does not accept: a
\* path that does not name what it needs, a body that is no JSON, a required
\* field missing, a value outside the enumeration, a date that does not parse
FailsValidation ==
    /\ entry \in Handlers
    /\ req.method = OwnMethod[entry]
    /\ CASE entry = "ListAccounts" -> FALSE
         [] entry = "CreateAccount" -> InvalidAccountBody
         [] entry = "UpdateAccount" -> ~NamesAccount \/ InvalidAccountBody
         [] entry = "DeleteAccount" -> ~NamesAccount /\ QueryGet(req.query, "id") = ""
         [] entry = "ListTransactions" -> Addressed.accountID = ""
         [] entry = "CreateTransaction" ->
                Addressed.accountID = "" \/ Addressed.transactionID # "" \/ InvalidCreateBody
         [] entry = "UpdateTransaction" ->
                Addressed.accountID = "" \/ Addressed.transactionID = "" \/ InvalidUpdateBody
         [] entry = "DeleteTransaction" ->
                Addressed.accountID = "" \/ Addressed.transactionID = ""

\* C17, as stated: a request that fails validation causes no call to a
\* store, read or write.
\* Violated: UpdateTransaction calls GetByID once the path and the JSON syntax
\* are checked, and validates the date and the type given after that.
C17_AsStated == FailsValidation => calls = <<>>

\* C17: a request that fails validation changes neither table and causes no
\* call that writes. It causes no call at all and is answered 400, except in
\* UpdateTransaction when the path names a transaction and the body decodes:
\* there the one call made is the lookup TransactionStore.GetByID, and the
\* date and the type given are validated after it.
C17_ValidationBeforeWrites ==
    FailsValidation =>
        /\ accounts = before.accounts
        /\ transactions = before.transactions
        /\ calls = <<>> => resp.status = StatusBadRequest
        /\ calls # <<>> =>
                /\ entry = "UpdateTransaction"
                /\ Addressed.accountID # "" /\ Addressed.transactionID # ""
                /\ ~NotTransactionJSON(req.body)
                /\ Len(calls) = 1
                /\ calls[1].op = "TransactionStore.GetByID"

\* UpdateTransaction called for a stored transaction with a type that is not
\* allowed: the lookup is made, the answer is 400, the row is as it was
C17_Witness ==
    /\ FailsValidation
    /\ entry = "UpdateTransaction"
    /\ Owned(before)
    /\ Submitted(req.body, "type") = "bank"
    /\ calls = <<Call("TransactionStore.GetByID", "")>>
    /\ resp.status = StatusBadRequest
    /\ transactions = before.transactions

(***************************************************************************)
(* Claims about the failures of the stores, under SpecHandlers            *)

\* the store call of the request that returned an error, if any: the last
\* one made
FailedCall == IF calls # <<>> /\ calls[Len(calls)].err # ""
              THEN calls[Len(calls)] ELSE Call("", "")

\* the words by which DeleteTransaction tells a missing row
SaysNotFound(err) ==
    \E i \in 1..Len(err) : i + 8 <= Len(err) /\ SubSeq(err, i, i + 8) = "not found"

\* the message of the 500 each store call has in its handler
FailureMessage ==
    [op \in {"AccountStore.GetAll", "AccountStore.Create", "AccountStore.Update",
             "AccountStore.Delete", "TransactionStore.GetByAccountID",
             "TransactionStore.GetByID", "TransactionStore.Create",
             "TransactionStore.Update", "TransactionStore.Delete"} |->
        CASE op = "AccountStore.GetAll" -> "failed to list accounts"
          [] op = "AccountStore.Create" -> "failed to create account"
          [] op = "AccountStore.Update" -> "failed to update account"
          [] op = "AccountStore.Delete" -> "failed to delete account"
          [] op = "TransactionStore.GetByAccountID" -> "failed to list transactions"
          [] op = "TransactionStore.GetByID" -> "failed to get transaction"
          [] op = "TransactionStore.Create" -> "failed to create transaction"
          [] op = "TransactionStore.Update" -> "failed to update transaction"
          [] op = "TransactionStore.Delete" -> "failed to delete transaction"]

\* the same request served on the same tables, the same call failing, with
\* the text of the error being any other
OtherRuns ==
    {IF entry = "router" THEN ServeRegistered(req, before, e).resp
                         ELSE Handle(entry, req, before, e).resp :
        e \in {f \in HandlerEnvs(IF entry = "router" THEN "" ELSE entry) :
                    f.fault = Len(calls)}}

\* TransactionRepository.Update and Delete on no row affected
NotFoundSignal == "transaction not found"

\* C21, as stated: when a call to a store returns an error the response is
\* the 500 of that call, with its fixed message, whatever the text of the
\* error is; the one failure answered otherwise is the report of a missing
\* row by TransactionStore.Delete, answered 404.
\* Violated: DeleteTransaction tells the report by the words "not found" in
\* the text, so a failure of the database whose text has these words is
\* answered 404 with the row still stored.
C21_AsStated ==
    FailedCall.err # "" =>
        resp = IF FailedCall.op = "TransactionStore.Delete"
                  /\ FailedCall.err = NotFoundSignal
               THEN NotFoundResponse
               ELSE ErrorResponse(StatusInternalServerError,
                                  FailureMessage[FailedCall.op])

\* what holds of the failures (C21): the response is the 500 of the call
\* that failed, with its fixed message, and the runs that differ in the text
\* of the error alone have the same response, in every handler but
\* DeleteTransaction; there the response is 404 for every text with the
\* words "not found" and the 500 of the call for every other.
C21_GenericFailure ==
    FailedCall.err # "" =>
        IF FailedCall.op = "TransactionStore.Delete"
        THEN /\ resp = IF SaysNotFound(FailedCall.err)
                       THEN NotFoundResponse
                       ELSE ErrorResponse(StatusInternalServerError,
                                          FailureMessage[FailedCall.op])
             /\ OtherRuns \subseteq
                    {NotFoundResponse,
                     ErrorResponse(StatusInternalServerError,
                                   FailureMessage[FailedCall.op])}
        ELSE /\ resp = ErrorResponse(StatusInternalServerError,
                                     FailureMessage[FailedCall.op])
             /\ OtherRuns = {resp}

\* the update of a stored transaction failed at its write with a text that
\* has the words "not found", and the answer is the 500 of the write
FailedUpdateNotFoundText ==
    /\ entry = "UpdateTransaction"
    /\ Owned(before)
    /\ Len(calls) = 2
    /\ calls[2] = Call("TransactionStore.Update", "update transaction: host not found")
    /\ resp = ErrorResponse(StatusInternalServerError, "failed to update transaction")
    /\ transactions = before.transactions

(***************************************************************************)
(* Claims about the rows stored, under Spec                               *)

\* C22: in every state reached by requests, every account stored has a
\* type among bank, cash and other and a name that is not empty, and every
\* transaction stored has the type income or expense and an account id that
\* is not empty.
C22_StoredRowsValid ==
    /\ \A a \in DOMAIN accounts :
            /\ accounts[a].type \in {"bank", "cash", "other"}
            /\ accounts[a].name # ""
    /\ \A t \in DOMAIN transactions :
            /\ transactions[t].type \in {"income", "expense"}
            /\ transactions[t].account_id # ""

\* an update answered 200 has changed a stored account that has a
\* transaction
C22_Witness ==
    /\ req.method = MethodPut
    /\ resp.status = StatusOK
    /\ accounts # before.accounts
    /\ DOMAIN accounts = DOMAIN before.accounts
    /\ \E t \in DOMAIN transactions : transactions[t].account_id \in DOMAIN accounts

(***************************************************************************)
(* Claims about requests served side by side, under SpecRace              *)

Completed(c) == c \in DOMAIN inflight /\ inflight[c].pc = "done"

\* the delete has been served
Deleted == 0 \in DOMAIN inflight

\* the row a client fetched, and that row with the fields of its body put in
FetchedRow(c) == TransactionRow(inflight[c].existing)
MergedRow(c) == Replaced(FetchedRow(c), inflight[c].body)

\* two updates, each of which fetched before the other wrote
Overlapped(c, d) ==
    /\ c \in Clients /\ d \in Clients /\ c # d
    /\ Completed(c) /\ Completed(d)
    /\ inflight[c].fetchedAt < inflight[d].wroteAt
    /\ inflight[d].fetchedAt < inflight[c].wroteAt

\* C23: two updates of one transaction that overlap are both answered 200
\* with the resource each merged, and the row stored once both are over is
\* the merged resource of the one whose Update came last.
C23_LastWriteWins ==
    \A c, d \in Clients :
        (Overlapped(c, d) /\ ~Deleted) =>
            /\ inflight[c].resp.status = StatusOK
            /\ TransactionRow(inflight[c].resp.body) = MergedRow(c)
            /\ DOMAIN transactions = {"t1"}
            /\ inflight[c].wroteAt > inflight[d].wroteAt => transactions["t1"] = MergedRow(c)

\* both updates fetched the row of the start; the first wrote a description,
\* the second an amount, and the description of the first is not stored
C23_Witness ==
    /\ Overlapped(1, 2)
    /\ ~Deleted
    /\ inflight[1].wroteAt < inflight[2].wroteAt
    /\ DOMAIN inflight[1].body.obj = {"description"}
    /\ DOMAIN inflight[2].body.obj = {"amount"}
    /\ inflight[1].resp.status = StatusOK /\ inflight[2].resp.status = StatusOK
    /\ transactions["t1"] = MergedRow(2)
    /\ transactions["t1"].description = "rent"

\* the other update wrote between the fetch and the write of this one
WroteBetween(d, c) ==
    /\ c \in Clients /\ d \in Clients /\ c # d
    /\ Completed(c) /\ Completed(d)
    /\ inflight[c].resp.status = StatusOK /\ inflight[d].resp.status = StatusOK
    /\ inflight[c].fetchedAt < inflight[d].wroteAt
    /\ inflight[d].wroteAt < inflight[c].wroteAt

Columns == {"amount", "date", "description", "type"}

\* C25, as stated: when the other update wrote between the fetch and the
\* write of this one, a field this one did not give holds, once both are
\* over, the value the other committed.
\* Violated: the UPDATE sets all four columns from the resource fetched, so
\* the value the other committed is replaced by the one fetched before it.
C25_AsStated ==
    \A c, d \in Clients :
        (WroteBetween(d, c) /\ ~Deleted) =>
            \A k \in Columns :
                (~Given(inflight[c].body, k) /\ Given(inflight[d].body, k)) =>
                    transactions["t1"][k] = MergedRow(d)[k]

\* C25: once an update has written, and until another write, a field it did
\* not give holds the value the update fetched, and a field it gave the
\* value given; a value another update committed to a field not given,
\* between the fetch and the write, is replaced by the value fetched.
C25_FetchedValuesWritten ==
    \A c \in Clients :
        (/\ Completed(c) /\ inflight[c].resp.status = StatusOK /\ ~Deleted
         /\ \A d \in DOMAIN inflight : inflight[d].wroteAt <= inflight[c].wroteAt) =>
            /\ transactions["t1"] = MergedRow(c)
            /\ \A k \in Columns :
                    ~Given(inflight[c].body, k) => transactions["t1"][k] = FetchedRow(c)[k]

\* the second update gave an amount alone; the first committed the
\* description "lunch" between its fetch and its write, and the description
\* stored is the one of the start
C25_Witness ==
    /\ WroteBetween(1, 2)
    /\ ~Deleted
    /\ DOMAIN inflight[1].body.obj = {"description"}
    /\ Submitted(inflight[1].body, "description") = "lunch"
    /\ DOMAIN inflight[2].body.obj = {"amount"}
    /\ transactions["t1"].description = "rent"
    /\ transactions["t1"].amount = 250000

\* the transaction, or its account, was deleted between the fetch and the
\* write of the update of a client
DeletedBetween(c) ==
    /\ c \in Clients
    /\ Completed(c) /\ Deleted
    /\ inflight[0].resp.status = StatusOK
    /\ inflight[c].existing # NoTransaction
    /\ inflight[c].fetchedAt < inflight[0].wroteAt
    /\ inflight[0].wroteAt < inflight[c].wroteAt

\* C26, as stated: when the transaction or its account is deleted between
\* the fetch and the write of an update, the transaction stays absent and
\* the update is answered 404.
\* Violated: TransactionRepository.Update reports "transaction not found"
\* on no row affected, and UpdateTransaction answers every error of Update
\* with 500 "failed to update transaction".
C26_AsStated ==
    \A c \in Clients :
        DeletedBetween(c) =>
            /\ "t1" \notin DOMAIN transactions
            /\ inflight[c].resp = NotFoundResponse

\* what holds of such an update (C26): the transaction stays absent, the
\* Update reports "transaction not found", and the answer is the 500 of it
DeletedStaysAbsent ==
    \A c \in Clients :
        DeletedBetween(c) =>
            /\ "t1" \notin DOMAIN transactions
            /\ inflight[c].calls =
                    <<Call("TransactionStore.GetByID", ""),
                      Call("TransactionStore.Update", NotFoundSignal)>>
            /\ inflight[c].resp = ErrorResponse(StatusInternalServerError,
                                                "failed to update transaction")

\* the account was deleted between the fetch and the write of an update
DeletedAccountBetween ==
    /\ DeletedBetween(1)
    /\ accounts = <<>>
    /\ inflight[1].resp.status = StatusInternalServerError

(***************************************************************************)
(* Claims about the README, under Spec                                    *)

\* POST /accounts with a body that is JSON and a name that is not empty
NamedCreateAccount ==
    /\ IsCreateAccount(req)
    /\ ~NotJSON(req.body)
    /\ Submitted(req.body, "name") # ""

\* C24, as stated: POST /accounts with a body that is JSON and a name that
\* is not empty is not a client error, the type being given or not, and is
\* answered 201 when the insert succeeds.
\* Violated: CreateAccount answers 400 "type is required" when the type is
\* missing, null or empty, and 400 when it is none of bank, cash, other.
C24_AsStated ==
    NamedCreateAccount =>
        /\ resp.status # StatusBadRequest
        /\ (calls # <<>> /\ calls[1].err = "") => resp.status = StatusCreated

\* C24: the type is required. POST /accounts with a body that is JSON and
\* a name that is not empty is answered 400 "type is required", with no
\* call to the store, when the type is missing, null or empty; 400 with the
\* list of types when it is none of bank, cash, other; and 201, with the
\* account stored under that type, only when it is one of them.
C24_TypeRequired ==
    NamedCreateAccount =>
        /\ Submitted(req.body, "type") = "" => Rejected("type is required")
        /\ Submitted(req.body, "type") \notin {"", "bank", "cash", "other"} =>
                Rejected("type must be one of: bank, cash, credit, other")
        /\ Submitted(req.body, "type") \in {"bank", "cash", "other"} =>
                /\ Len(calls) = 1
                /\ calls[1].err = "" => resp.status = StatusCreated
        /\ resp.status = StatusCreated =>
                /\ Submitted(req.body, "type") \in {"bank", "cash", "other"}
                /\ \E a \in DOMAIN accounts \ DOMAIN before.accounts :
                        accounts[a] = [name |-> Submitted(req.body, "name"),
                                       type |-> Submitted(req.body, "type")]

\* a body with the name "Checking" and no type
C24_Witness ==
    /\ NamedCreateAccount
    /\ DOMAIN req.body.obj = {"name"}
    /\ Submitted(req.body, "name") = "Checking"
    /\ Rejected("type is required")

(***************************************************************************)
(* Claims about the registered routes, under SpecRouter                   *)

\* the routes of a table in another order: two of them exchanged, or all
\* of them reversed
Exchanged(routes, i, j) ==
    [k \in DOMAIN routes |-> IF k = i THEN routes[j] ELSE IF k = j THEN routes[i]
                                                               ELSE routes[k]]

Reversed(routes) == [k \in DOMAIN routes |-> routes[Len(routes) + 1 - k]]

Reordered(routes) ==
    {Reversed(routes)}
        \cup {Exchanged(routes, i, j) : i, j \in DOMAIN routes}
        \cup {Reversed(Exchanged(routes, i, j)) : i, j \in DOMAIN routes}

\* the registered routes in other orders
RegisteredReordered == Reordered(RegisteredRoutes)

\* the patterns of the registered routes, taken as request paths
PatternPaths == {RegisteredRoutes[i].path : i \in DOMAIN RegisteredRoutes}

\* what the router does with a request: the status it writes itself, or
\* the route whose handler it invokes
Outcome(routes, method, path) ==
    With(newRouter(routes, method, path), LAMBDA o :
        [status |-> o.status,
         chosen |-> [k \in DOMAIN o.calls |-> routes[o.calls[k]]]])

\* the patterns of the table that a path matches
ShapesMatched(routes, path) ==
    {routes[i].path : i \in {k \in DOMAIN routes : pathMatches(routes[k].path, path)}}

\* the request of the state is one to the registered table, served
RegisteredServed ==
    rRoutes = RegisteredRoutes /\ rOut # NoOut /\ rParsed = NoParse

\* C27: a request path matches at most one of the patterns of the
\* registered table, no two routes have the same method and pattern, and
\* the router does with a request what it does under the registered order
\* (the same status, or the same route chosen) when the routes are in
\* another order: reversed when no pattern matches, and with any two
\* routes exchanged, reversed or not, when one does. The patterns
\* themselves, taken as paths, are among the paths.
C27_OrderOfRoutes ==
    RegisteredServed =>
        /\ rOut = newRouter(RegisteredRoutes, rMethod, rPath)
        /\ \A path \in {rPath} \cup (IF rSegs = <<>> THEN PatternPaths ELSE {}) :
                /\ Cardinality(ShapesMatched(RegisteredRoutes, path)) <= 1
                /\ \A routes \in IF ShapesMatched(RegisteredRoutes, path) = {}
                                  THEN {Reversed(RegisteredRoutes)}
                                  ELSE RegisteredReordered :
                        Outcome(routes, rMethod, path) =
                            Outcome(RegisteredRoutes, rMethod, path)
        /\ \A i, j \in DOMAIN RegisteredRoutes :
                (/\ RegisteredRoutes[i].method = RegisteredRoutes[j].method
                 /\ RegisteredRoutes[i].path = RegisteredRoutes[j].path) => i = j

\* a GET of a single transaction is handed to the route of its pattern,
\* which stands before the one of the list in the table and after it in
\* the table reversed
C27_Witness ==
    /\ RegisteredServed
    /\ rMethod = MethodGet
    /\ rPath = "/accounts/x/transactions/t1"
    /\ rOut.calls = <<6>>
    /\ newRouter(Reversed(RegisteredRoutes), rMethod, rPath).calls = <<5>>
    /\ ShapesMatched(RegisteredRoutes, rPath) = {"/accounts/:id/transactions/:txId"}

\* the route whose handler the registered router invoked for the request
RoutedTo == RegisteredRoutes[rOut.calls[1]]

Dispatched == rRoutes = RegisteredRoutes /\ rOut # NoOut /\ rOut.calls # <<>>

\* C28: when the registered router hands a request to a handler of a
\* pattern with {id}, the path parsing of that handler gives the second
\* segment of the path, which is not empty, as the account id; for the
\* transaction handlers it gives a transaction id exactly when the pattern
\* has {txId}, and that is the fourth segment. So no handler the router
\* invokes finds the path invalid.
C28_RouterAndHandlersAgree ==
    Dispatched =>
        /\ RoutedTo.handler \in {"UpdateAccount", "DeleteAccount"} =>
                /\ accountIDFromPath(rPath) = rSegs[2]
                /\ rSegs[2] # ""
        /\ RoutedTo.handler \in {"ListTransactions", "CreateTransaction",
                                  "UpdateTransaction", "DeleteTransaction"} =>
                With(accountIDAndTransactionIDFromPath(rPath), LAMBDA ids :
                    /\ ids.accountID = rSegs[2]
                    /\ rSegs[2] # ""
                    /\ (ids.transactionID # "") =
                            (RoutedTo.path = "/accounts/:id/transactions/:txId")
                    /\ ids.transactionID # "" => ids.transactionID = rSegs[4]
                    /\ RoutedTo.handler = "CreateTransaction" => ids.transactionID = ""
                    /\ RoutedTo.handler \in {"UpdateTransaction", "DeleteTransaction"} =>
                            ids.transactionID # "")

\* a PUT of a single transaction is handed to UpdateTransaction, and the
\* path parsed gives the two ids
C28_Witness ==
    /\ Dispatched
    /\ RoutedTo.handler = "UpdateTransaction"
    /\ rPath = "/accounts/x/transactions/t1"
    /\ rParsed = [accountID |-> "x", transactionID |-> "t1"]

(***************************************************************************)
(* Claims about the offset of a page, under SpecPage                      *)

\* the pagination of the request is parsed
Paginated == pgOut # NoPage

\* C29, as stated: for the page and the page size ParsePagination gives,
\* the offset (page - 1) * pageSize the list operations compute is not
\* negative and is the product of the two numbers.
\* Violated: a page up to 2^63 - 1 is accepted, and the product with a
\* page size above 1 then leaves the 64-bit int: it wraps around, to a
\* negative offset or to another one that is not the product.
C29_AsStated ==
    Paginated =>
        /\ ~Offset(pgOut.page, pgOut.pageSize).offset.neg
        /\ Offset(pgOut.page, pgOut.pageSize).offset.abs =
                Offset(pgOut.page, pgOut.pageSize).product

\* what holds of the offset (C29): it is the product, and not negative,
\* for every page of at most 92233720368547758 (2^63 / 100, rounded down)
OffsetOfPagesInRange ==
    (Paginated /\ ~DecLess("92233720368547758", pgOut.page)) =>
        Offset(pgOut.page, pgOut.pageSize).offset =
            [neg |-> FALSE, abs |-> Offset(pgOut.page, pgOut.pageSize).product]

\* page 9223372036854775807 with the default page size: the offset is -40
NegativeOffset ==
    /\ Paginated
    /\ pgOut = [page |-> MaxInt64, pageSize |-> defaultPageSize]
    /\ Offset(pgOut.page, pgOut.pageSize) =
            [product |-> "184467440737095516120", offset |-> [neg |-> TRUE, abs |-> "40"]]

\* page 999 with the page size 100: the offset is 99800
OffsetInRange ==
    /\ Paginated
    /\ pgOut = [page |-> "999", pageSize |-> maxPageSize]
    /\ Offset(pgOut.page, pgOut.pageSize).offset = [neg |-> FALSE, abs |-> "99800"]

(***************************************************************************)
(* Claims about the repositories called by themselves, under SpecRepo     *)

\* the first of the tests a call does not pass, by the method and the
\* arguments: "" when it passes them all
ValidationError(op, a) ==
    CASE op = "AccountRepository.Update" ->
            IF a.accountID = "" THEN "account ID is required"
            ELSE IF a.name = "" THEN "account name is required"
            ELSE IF a.type = "" THEN "account type is required" ELSE ""
      [] op = "AccountRepository.Delete" ->
            IF a.accountID = "" THEN "account ID is required" ELSE ""
      [] op = "TransactionRepository.GetByAccountID" ->
            IF a.accountID = "" THEN "account ID is required" ELSE ""
      [] op \in {"TransactionRepository.GetByID", "TransactionRepository.Delete"} ->
            IF a.accountID = "" THEN "account ID is required"
            ELSE IF a.transactionID = "" THEN "transaction ID is required" ELSE ""
      [] op = "TransactionRepository.Create" ->
            IF a.accountID = "" THEN "account ID is required"
            ELSE IF a.type = "" THEN "transaction type is required"
            ELSE IF a.type \notin {"income", "expense"}
            THEN "transaction type must be income or expense" ELSE ""
      [] op = "TransactionRepository.Update" ->
            IF a.transactionID = "" THEN "transaction ID is required"
            ELSE IF a.accountID = "" THEN "account ID is required"
            ELSE IF a.type = "" THEN "transaction type is required"
            ELSE IF a.type \notin {"income", "expense"}
            THEN "transaction type must be income or expense" ELSE ""
      [] OTHER -> ""

\* C30: a repository method given an empty account ID (account update and
\* delete, every transaction method), an empty transaction ID (transaction
\* get, update, delete), an empty name or type (account update), or a type
\* that is empty or neither income nor expense (transaction create and
\* update) returns the error of the first test it does not pass, without
\* reaching the database, up or down, and with both tables as they were;
\* the transaction update tests the transaction ID, then the account ID,
\* then the type. A call that passes the tests reaches the database.
C30_RepositoryValidation ==
    repo # NoRepositoryCall =>
        IF ValidationError(repo.op, repo.args) # ""
        THEN /\ repo.err = ValidationError(repo.op, repo.args)
             /\ ~repo.access
             /\ accounts = before.accounts
             /\ transactions = before.transactions
        ELSE /\ repo.access
             /\ repo.err \notin {"account ID is required", "transaction ID is required",
                                 "account name is required", "account type is required",
                                 "transaction type is required",
                                 "transaction type must be income or expense"}

\* a stored transaction is updated with no transaction ID, no account ID
\* and no type, the database being down: the error is of the transaction
\* ID, and the row is as it was
C30_Witness ==
    /\ repo # NoRepositoryCall
    /\ repo.op = "TransactionRepository.Update"
    /\ repo.args.transactionID = "" /\ repo.args.accountID = "" /\ repo.args.type = ""
    /\ repo.args.fails # ""
    /\ repo.err = "transaction ID is required"
    /\ "t1" \in DOMAIN before.transactions
    /\ transactions = before.transactions

====
